---- MODULE Spec2Model ----
(***************************************************************************)
(* Model of generate_COMPSs_RO-Crate.py: the classification of the         *)
(* dataprovenance.log records (process_accessed_files) and the detection   *)
(* of common paths (get_common_paths).                                      *)
(*                                                                          *)
(* Python strings are sequences of one-character strings, so that          *)
(* splitting, URL parsing, prefix tests and the lexicographic order of     *)
(* list.sort() are computed on the characters, as the code does.           *)
(***************************************************************************)
EXTENDS Integers, Sequences, FiniteSets, TLC

VARIABLES
    dp_file,            \* lines of the dataprovenance.log file
    lineno,             \* number of lines process_accessed_files has consumed
    inputs,             \* process_accessed_files: set inputs
    outputs,            \* process_accessed_files: set outputs
    l_ins,              \* process_accessed_files: list l_ins
    l_outs,             \* process_accessed_files: list l_outs
    data_idx,           \* position in [l_ins, l_outs] of the dir:// fix loop
    it,                 \* index the list iterator of the dir:// fix loop is at
    pc,                 \* position in process_accessed_files
    url_list,           \* get_common_paths: parameter url_list
    i,                  \* get_common_paths: counter i
    list_common_paths,  \* get_common_paths: list list_common_paths
    common_path,        \* get_common_paths: common_path
    cp_it,              \* index the list iterator of the end-slash loop is at
    cp_pc,              \* position in get_common_paths
    data_entities_list, \* add_manual_datasets: the paths the user declared
    md_detected,        \* add_manual_datasets: data_list as it was passed
    md_data_list,          \* add_manual_datasets: list data_list
    md_k,               \* add_manual_datasets: declared paths dealt with
    md_pc,              \* position in add_manual_datasets
    inputs_list,        \* fix_in_files_at_out_dirs: list inputs_list
    outputs_list,       \* fix_in_files_at_out_dirs: list outputs_list
    fx_inputs,          \* fix_in_files_at_out_dirs: inputs_list as passed
    fx_directories_list, \* fix_in_files_at_out_dirs: directories_list
    url_files_list,     \* fix_in_files_at_out_dirs: inputs_list[i:]
    fx_it,              \* fix_in_files_at_out_dirs: items of the slice seen
    fx_pc,              \* position in fix_in_files_at_out_dirs
    ca_ins,             \* main: list ins
    ca_outs,            \* main: list outs
    fixed_ins,          \* main: list fixed_ins
    fixed_outs,         \* main: list fixed_outs
    ca_object,          \* wrroc_create_action: "object" of create_action
    ca_result,          \* wrroc_create_action: "result" of create_action
    ca_pc,              \* position in wrroc_create_action
    yaml_sources,       \* compss_wf_info["sources"]
    sources_main_file,  \* compss_wf_info["sources_main_file"]
    second_line,        \* second line of the log: the application
    listing,            \* the order in which os.walk lists each directory
    main_pc,            \* main: the stage it is at
    main_entity,        \* main: main_entity
    as_k,               \* add_application_source_files: sources dealt with
    added_files,        \* add_application_source_files: added_files
    added_dirs,         \* add_application_source_files: added_dirs
    crate_files,        \* the source files of compss_crate, with their role
    stages_done,        \* main: the stages that have returned
    raised,             \* main: the exception of the last stage
    written,            \* number of calls of compss_crate.write
    main_ins,           \* main: list ins, from call to call
    main_outs,          \* main: list outs, from call to call
    ins_and_outs,       \* main: list ins_and_outs
    data_persistence,   \* compss_wf_info["data_persistence"]
    persistence,        \* main: persistence
    main_common_paths,  \* main: list list_common_paths
    dataset_calls,      \* the calls of add_dataset_file_to_crate
    flow_pc             \* main: the call it is at, from ins to fixed_outs

logVars == <<dp_file, lineno, inputs, outputs, l_ins, l_outs, data_idx, it, pc>>
cpVars == <<url_list, i, list_common_paths, common_path, cp_it, cp_pc>>
mainVars == <<yaml_sources, sources_main_file, second_line, listing, main_pc,
              main_entity, as_k, added_files, added_dirs, crate_files, stages_done,
              raised, written>>
caVars == <<ca_ins, ca_outs, fixed_ins, fixed_outs, ca_object, ca_result, ca_pc>>
fxVars == <<inputs_list, outputs_list, fx_inputs, fx_directories_list,
            url_files_list, fx_it, fx_pc>>
mdVars == <<data_entities_list, md_detected, md_data_list, md_k, md_pc>>
flowVars == <<main_ins, main_outs, ins_and_outs, data_persistence, persistence,
              main_common_paths, dataset_calls, flow_pc>>
vars == <<dp_file, lineno, inputs, outputs, l_ins, l_outs, data_idx, it, pc,
          url_list, i, list_common_paths, common_path, cp_it, cp_pc,
          data_entities_list, md_detected, md_data_list, md_k, md_pc,
          inputs_list, outputs_list, fx_inputs, fx_directories_list,
          url_files_list, fx_it, fx_pc,
          ca_ins, ca_outs, fixed_ins, fixed_outs, ca_object, ca_result, ca_pc,
          yaml_sources, sources_main_file, second_line, listing, main_pc,
          main_entity, as_k, added_files, added_dirs, crate_files, stages_done,
          raised, written,
          main_ins, main_outs, ins_and_outs, data_persistence, persistence,
          main_common_paths, dataset_calls, flow_pc>>

\* the variables of the other functions
notLogVars == <<cpVars, mdVars, fxVars, caVars, mainVars, flowVars>>
notCpVars == <<logVars, mdVars, fxVars, caVars, mainVars, flowVars>>
notMdVars == <<logVars, cpVars, fxVars, caVars, mainVars, flowVars>>
notFxVars == <<logVars, cpVars, mdVars, caVars, mainVars, flowVars>>
notCaVars == <<logVars, cpVars, mdVars, fxVars, mainVars, flowVars>>
notMainVars == <<logVars, cpVars, mdVars, fxVars, caVars, flowVars>>

----------------------------------------------------------------------------
(* Bounds *)

\* longest sequence of access records after the three header lines
MaxLog == 3

\* longest list handed to get_common_paths
MaxUrls == 3

\* longest list of paths declared under 'inputs' or 'outputs'
MaxDeclared == 2

\* longest list declared under 'sources'
MaxSources == 2

----------------------------------------------------------------------------
(* Python str *)

\* the characters in use, in code point order
AsciiOrder ==
    <<"\t", "\n", " ", "#", "+", "-", ".", "/",
      "0", "1", "2", "3", "4", "5", "6", "7", "8", "9", ":", "?",
      "A", "B", "C", "D", "E", "F", "G", "H", "I", "J", "K", "L", "M",
      "N", "O", "P", "Q", "R", "S", "T", "U", "V", "W", "X", "Y", "Z", "_",
      "a", "b", "c", "d", "e", "f", "g", "h", "i", "j", "k", "l", "m",
      "n", "o", "p", "q", "r", "s", "t", "u", "v", "w", "x", "y", "z">>

\* ord() of each character, up to the offset
OrdTable ==
    [c \in {AsciiOrder[n] : n \in 1..Len(AsciiOrder)} |->
        CHOOSE n \in 1..Len(AsciiOrder) : AsciiOrder[n] = c]

Ord(c) == OrdTable[c]

UpperCase == {AsciiOrder[n] : n \in 21..46}

LowerCase == {AsciiOrder[n] : n \in 48..73}

Digits == {AsciiOrder[n] : n \in 9..18}

\* str.lower() on one character
LowerChar(c) == IF c \in UpperCase THEN AsciiOrder[Ord(c) + 27] ELSE c

Lower(s) == [n \in 1..Len(s) |-> LowerChar(s[n])]

\* s < t for str: the first differing character decides, a proper prefix is smaller
StrLt(s, t) ==
    \E k \in 1..Len(t) :
        /\ k <= Len(s) + 1
        /\ \A j \in 1..(k - 1) : s[j] = t[j]
        /\ \/ k = Len(s) + 1
           \/ Ord(s[k]) < Ord(t[k])

\* str.find(c) for a single character, 0 when absent (1-based otherwise)
Find(s, c) ==
    IF \E n \in 1..Len(s) : s[n] = c
    THEN CHOOSE n \in 1..Len(s) : s[n] = c /\ \A j \in 1..(n - 1) : s[j] # c
    ELSE 0

\* s[n:] (1-based n)
From(s, n) == SubSeq(s, n, Len(s))

\* str.startswith
StartsWith(s, p) == Len(p) <= Len(s) /\ SubSeq(s, 1, Len(p)) = p

Whitespace == {" ", "\t", "\n"}

RECURSIVE rstrip(_)
rstrip(s) ==
    IF s # <<>> /\ s[Len(s)] \in Whitespace
    THEN rstrip(SubSeq(s, 1, Len(s) - 1))
    ELSE s

\* str.split(c) for a one-character separator
RECURSIVE split(_, _)
split(s, c) ==
    IF Find(s, c) = 0
    THEN <<s>>
    ELSE <<SubSeq(s, 1, Find(s, c) - 1)>> \o split(From(s, Find(s, c) + 1), c)

----------------------------------------------------------------------------
(* Python list *)

\* x in list
In(x, l) == \E n \in 1..Len(l) : l[n] = x

\* list.remove(x): delete the first occurrence
Remove(l, x) ==
    LET n == CHOOSE n \in 1..Len(l) : l[n] = x /\ \A j \in 1..(n - 1) : l[j] # x
    IN SubSeq(l, 1, n - 1) \o SubSeq(l, n + 1, Len(l))

RECURSIVE InsertSorted(_, _)
InsertSorted(x, l) ==
    IF l = <<>> THEN <<x>>
    ELSE IF StrLt(x, l[1]) THEN <<x>> \o l
    ELSE <<l[1]>> \o InsertSorted(x, Tail(l))

\* list.sort() on a list of str
RECURSIVE Sort(_)
Sort(l) == IF l = <<>> THEN <<>> ELSE InsertSorted(l[1], Sort(Tail(l)))

\* list(set) followed by list.sort()
RECURSIVE SortedList(_)
SortedList(S) ==
    IF S = {} THEN <<>>
    ELSE LET least == CHOOSE x \in S : \A y \in S \ {x} : StrLt(x, y)
         IN <<least>> \o SortedList(S \ {least})

----------------------------------------------------------------------------
(* urllib.parse.urlsplit *)

SchemeChars == UpperCase \cup LowerCase \cup Digits \cup {"+", "-", "."}

HasScheme(url) ==
    /\ Find(url, ":") > 1
    /\ url[1] \in UpperCase \cup LowerCase
    /\ \A n \in 1..(Find(url, ":") - 1) : url[n] \in SchemeChars

\* the first position at or after n holding one of "/?#", Len(s) + 1 when none
NetlocEnd(s, n) ==
    IF \E k \in n..Len(s) : s[k] \in {"/", "?", "#"}
    THEN CHOOSE k \in n..Len(s) :
            s[k] \in {"/", "?", "#"} /\ \A j \in n..(k - 1) : s[j] \notin {"/", "?", "#"}
    ELSE Len(s) + 1

PathOnly(s) ==
    LET cut == IF \E k \in 1..Len(s) : s[k] \in {"?", "#"}
               THEN CHOOSE k \in 1..Len(s) :
                       s[k] \in {"?", "#"} /\ \A j \in 1..(k - 1) : s[j] \notin {"?", "#"}
               ELSE Len(s) + 1
    IN SubSeq(s, 1, cut - 1)

urlsplit(url) ==
    LET scheme == IF HasScheme(url) THEN Lower(SubSeq(url, 1, Find(url, ":") - 1)) ELSE <<>>
        rest == IF HasScheme(url) THEN From(url, Find(url, ":") + 1) ELSE url
        hasNetloc == StartsWith(rest, <<"/", "/">>)
        netloc == IF hasNetloc THEN SubSeq(rest, 3, NetlocEnd(rest, 3) - 1) ELSE <<>>
        after == IF hasNetloc THEN From(rest, NetlocEnd(rest, 3)) ELSE rest
    IN [scheme |-> scheme, netloc |-> netloc, path |-> PathOnly(after)]

----------------------------------------------------------------------------
(* The dataprovenance.log file *)

SchemeDir == <<"d", "i", "r">>

SchemeFile == <<"f", "i", "l", "e">>

\* socket.gethostname()
Hostname == <<"h">>

Url(scheme, host, path) == scheme \o <<":", "/", "/">> \o host \o path

TokIN == <<"I", "N">>

TokIN_DELETE == <<"I", "N", "_", "D", "E", "L", "E", "T", "E">>

TokOUT == <<"O", "U", "T">>

TokINOUT == <<"I", "N", "O", "U", "T">>

TokCONCURRENT == <<"C", "O", "N", "C", "U", "R", "R", "E", "N", "T">>

\* the URIs the runtime reports: directories come without end slash
UriDirA == Url(SchemeDir, Hostname, <<"/", "a">>)

UriDirB == Url(SchemeDir, Hostname, <<"/", "b">>)

UriFile == Url(SchemeFile, Hostname, <<"/", "a", "/", "f">>)

LogUris == {UriDirA, UriDirB, UriFile}

LogLine(uri, token) == uri \o <<" ">> \o token \o <<"\n">>

RecordLines ==
    { LogLine(UriDirA, TokIN), LogLine(UriDirA, TokCONCURRENT),
      LogLine(UriDirB, TokIN), LogLine(UriDirB, TokOUT),
      LogLine(UriFile, TokIN), LogLine(UriFile, TokIN_DELETE),
      LogLine(UriFile, TokOUT), LogLine(UriFile, TokINOUT) }

\* a line that does not split into two fields (two spaces give three)
OtherLines == { UriFile \o <<" ", " ">> \o TokIN \o <<"\n">> }

Lines == RecordLines \cup OtherLines

\* the three first lines: COMPSs version, main entity, profile file name
Headers ==
    { << <<"3", ".", "3", "\n">>, <<"m", ".", "p", "y", "\n">>, <<"p", "\n">> >>,
      << <<"3", ".", "3", "\n">>, <<"m", " ", "a", ".", "p", "y", "\n">>, <<"p", "\n">> >> }

LogFiles ==
    UNION { { h \o r : h \in Headers, r \in [1..n -> Lines] } : n \in 0..MaxLog }

----------------------------------------------------------------------------
(* process_accessed_files *)

\* line.rstrip().split(" ")
FileRecord(line) == split(rstrip(line), " ")

\* Classify, but an IN on a generated file drops it from the outputs (the
\* outputs.remove the code keeps commented out)
Classify_RemoveIntermediate(file_record, ins, outs) ==
    IF Len(file_record) = 2
    THEN IF file_record[2] = TokIN \/ file_record[2] = TokIN_DELETE
         THEN [inputs |-> IF file_record[1] \notin outs THEN ins \cup {file_record[1]} ELSE ins,
               outputs |-> outs \ {file_record[1]}]
         ELSE IF file_record[2] = TokOUT
         THEN [inputs |-> ins, outputs |-> outs \cup {file_record[1]}]
         ELSE [inputs |-> IF file_record[1] \notin outs THEN ins \cup {file_record[1]} ELSE ins,
               outputs |-> outs \cup {file_record[1]}]
    ELSE [inputs |-> ins, outputs |-> outs]

\* Classify, but an IN is added to the inputs without looking at the outputs
Classify_NoIntermediateTest(file_record, ins, outs) ==
    IF Len(file_record) = 2
    THEN IF file_record[2] = TokIN \/ file_record[2] = TokIN_DELETE
         THEN [inputs |-> ins \cup {file_record[1]}, outputs |-> outs]
         ELSE IF file_record[2] = TokOUT
         THEN [inputs |-> ins, outputs |-> outs \cup {file_record[1]}]
         ELSE [inputs |-> IF file_record[1] \notin outs THEN ins \cup {file_record[1]} ELSE ins,
               outputs |-> outs \cup {file_record[1]}]
    ELSE [inputs |-> ins, outputs |-> outs]

\* Classify, but IN_DELETE is not recognised and falls to the INOUT branch
Classify_InDeleteAsInout(file_record, ins, outs) ==
    IF Len(file_record) = 2
    THEN IF file_record[2] = TokIN
         THEN [inputs |-> IF file_record[1] \notin outs THEN ins \cup {file_record[1]} ELSE ins,
               outputs |-> outs]
         ELSE IF file_record[2] = TokOUT
         THEN [inputs |-> ins, outputs |-> outs \cup {file_record[1]}]
         ELSE [inputs |-> IF file_record[1] \notin outs THEN ins \cup {file_record[1]} ELSE ins,
               outputs |-> outs \cup {file_record[1]}]
    ELSE [inputs |-> ins, outputs |-> outs]

\* Classify, but an INOUT of a file already known as input is not added to
\* the outputs
Classify_InoutKeepsInput(file_record, ins, outs) ==
    IF Len(file_record) = 2
    THEN IF file_record[2] = TokIN \/ file_record[2] = TokIN_DELETE
         THEN [inputs |-> IF file_record[1] \notin outs THEN ins \cup {file_record[1]} ELSE ins,
               outputs |-> outs]
         ELSE IF file_record[2] = TokOUT
         THEN [inputs |-> ins, outputs |-> outs \cup {file_record[1]}]
         ELSE [inputs |-> IF file_record[1] \notin outs THEN ins \cup {file_record[1]} ELSE ins,
               outputs |-> IF file_record[1] \in ins THEN outs ELSE outs \cup {file_record[1]}]
    ELSE [inputs |-> ins, outputs |-> outs]

Classify_TwoOrMore(file_record, ins, outs) ==
    IF Len(file_record) >= 2
    THEN IF file_record[2] = TokIN \/ file_record[2] = TokIN_DELETE
         THEN [inputs |-> IF file_record[1] \notin outs THEN ins \cup {file_record[1]} ELSE ins,
               outputs |-> outs]
         ELSE IF file_record[2] = TokOUT
         THEN [inputs |-> ins, outputs |-> outs \cup {file_record[1]}]
         ELSE [inputs |-> IF file_record[1] \notin outs THEN ins \cup {file_record[1]} ELSE ins,
               outputs |-> outs \cup {file_record[1]}]
    ELSE [inputs |-> ins, outputs |-> outs]

\* Classify, but an OUT moves the URI from the inputs to the outputs
Classify_OutMovesInput(file_record, ins, outs) ==
    IF Len(file_record) = 2
    THEN IF file_record[2] = TokIN \/ file_record[2] = TokIN_DELETE
         THEN [inputs |-> IF file_record[1] \notin outs THEN ins \cup {file_record[1]} ELSE ins,
               outputs |-> outs]
         ELSE IF file_record[2] = TokOUT
         THEN [inputs |-> ins \ {file_record[1]}, outputs |-> outs \cup {file_record[1]}]
         ELSE [inputs |-> IF file_record[1] \notin outs THEN ins \cup {file_record[1]} ELSE ins,
               outputs |-> outs \cup {file_record[1]}]
    ELSE [inputs |-> ins, outputs |-> outs]

\* the body of the loop over the lines: the sets after one record
Classify(file_record, ins, outs) ==
    IF Len(file_record) = 2
    THEN IF file_record[2] = TokIN \/ file_record[2] = TokIN_DELETE
         THEN [inputs |-> IF file_record[1] \notin outs THEN ins \cup {file_record[1]} ELSE ins,
               outputs |-> outs]
         ELSE IF file_record[2] = TokOUT
         THEN [inputs |-> ins, outputs |-> outs \cup {file_record[1]}]
         ELSE [inputs |-> IF file_record[1] \notin outs THEN ins \cup {file_record[1]} ELSE ins,
               outputs |-> outs \cup {file_record[1]}]
    ELSE [inputs |-> ins, outputs |-> outs]

\* the list the dir:// fix loop is working on
DataList == IF data_idx = 1 THEN l_ins ELSE l_outs

\* the dir:// reference with the host name and an end slash
FixedDirRef(item) == Url(SchemeDir, Hostname, urlsplit(item).path \o <<"/">>)

\* one turn of "for item in data_list" on a dir:// item: append, then remove
FixDirItem(data_list, item) == Remove(Append(data_list, FixedDirRef(item)), item)

InitLog ==
    /\ dp_file \in LogFiles
    /\ lineno = 0
    /\ inputs = {}
    /\ outputs = {}
    /\ l_ins = <<>>
    /\ l_outs = <<>>
    /\ data_idx = 0
    /\ it = 0
    /\ pc = "read"

IdleCP ==
    /\ url_list = <<>>
    /\ i = 0
    /\ list_common_paths = <<>>
    /\ common_path = <<>>
    /\ cp_it = 0
    /\ cp_pc = "idle"

\* add_manual_datasets has not been called
IdleMD ==
    /\ data_entities_list = <<>>
    /\ md_detected = <<>>
    /\ md_data_list = <<>>
    /\ md_k = 0
    /\ md_pc = "idle"

\* fix_in_files_at_out_dirs has not been called
IdleFX ==
    /\ inputs_list = <<>>
    /\ outputs_list = <<>>
    /\ fx_inputs = <<>>
    /\ fx_directories_list = <<>>
    /\ url_files_list = <<>>
    /\ fx_it = 0
    /\ fx_pc = "idle"

\* the data entities have not been added to the crate
IdleCA ==
    /\ ca_ins = <<>>
    /\ ca_outs = <<>>
    /\ fixed_ins = <<>>
    /\ fixed_outs = <<>>
    /\ ca_object = <<>>
    /\ ca_result = <<>>
    /\ ca_pc = "idle"

\* main has not been called
IdleMain ==
    /\ yaml_sources = [key |-> FALSE, list |-> <<>>]
    /\ sources_main_file = <<>>
    /\ second_line = <<>>
    /\ listing = <<>>
    /\ main_pc = "idle"
    /\ main_entity = <<>>
    /\ as_k = 0
    /\ added_files = <<>>
    /\ added_dirs = <<>>
    /\ crate_files = <<>>
    /\ stages_done = <<>>
    /\ raised = "no error"
    /\ written = 0

\* main has not handed any list over
IdleFlow ==
    /\ main_ins = <<>>
    /\ main_outs = <<>>
    /\ ins_and_outs = <<>>
    /\ data_persistence = "absent"
    /\ persistence = FALSE
    /\ main_common_paths = <<>>
    /\ dataset_calls = <<>>
    /\ flow_pc = "idle"

Init == InitLog /\ IdleCP /\ IdleMD /\ IdleFX /\ IdleCA /\ IdleMain /\ IdleFlow

\* for line in dp_file: one line is classified
ReadLine ==
    /\ pc = "read"
    /\ lineno < Len(dp_file)
    /\ LET r == Classify(FileRecord(dp_file[lineno + 1]), inputs, outputs)
       IN /\ inputs' = r.inputs
          /\ outputs' = r.outputs
    /\ lineno' = lineno + 1
    /\ UNCHANGED <<dp_file, l_ins, l_outs, data_idx, it, pc>>
    /\ UNCHANGED notLogVars

\* end of file: the sets become sorted lists
MakeLists ==
    /\ pc = "read"
    /\ lineno = Len(dp_file)
    /\ l_ins' = SortedList(inputs)
    /\ l_outs' = SortedList(outputs)
    /\ data_idx' = 1
    /\ it' = 1
    /\ pc' = "fix"
    /\ UNCHANGED <<dp_file, lineno, inputs, outputs>>
    /\ UNCHANGED notLogVars

\* FixDirEntry, but as a loop on the item at the iterator's place: the
\* iterator stays where it is, and an item that has its end slash is
\* appended as it is
FixDirEntry_SamePlace ==
    /\ pc = "fix"
    /\ it <= Len(DataList)
    /\ urlsplit(DataList[it]).scheme = SchemeDir
    /\ LET item == DataList[it]
           new == IF item[Len(item)] = "/" THEN item ELSE FixedDirRef(item)
       IN IF data_idx = 1
          THEN l_ins' = Remove(Append(l_ins, new), item) /\ UNCHANGED l_outs
          ELSE l_outs' = Remove(Append(l_outs, new), item) /\ UNCHANGED l_ins
    /\ it' = it
    /\ UNCHANGED <<dp_file, lineno, inputs, outputs, data_idx, pc>>
    /\ UNCHANGED notLogVars

\* the iterator yields a dir:// item: it is rewritten in the list
FixDirEntry ==
    /\ pc = "fix"
    /\ it <= Len(DataList)
    /\ urlsplit(DataList[it]).scheme = SchemeDir
    /\ IF data_idx = 1
       THEN l_ins' = FixDirItem(l_ins, l_ins[it]) /\ UNCHANGED l_outs
       ELSE l_outs' = FixDirItem(l_outs, l_outs[it]) /\ UNCHANGED l_ins
    /\ it' = it + 1
    /\ UNCHANGED <<dp_file, lineno, inputs, outputs, data_idx, pc>>
    /\ UNCHANGED notLogVars

\* FixDirExit, but without data_list.sort()
FixDirExit_NoSort ==
    /\ pc = "fix"
    /\ IF it <= Len(DataList) THEN urlsplit(DataList[it]).scheme # SchemeDir ELSE TRUE
    /\ IF data_idx = 1
       THEN /\ data_idx' = 2
            /\ it' = 1
            /\ UNCHANGED <<l_ins, l_outs, pc>>
       ELSE /\ pc' = "done"
            /\ UNCHANGED <<l_ins, l_outs, data_idx, it>>
    /\ UNCHANGED <<dp_file, lineno, inputs, outputs>>
    /\ UNCHANGED notLogVars

\* the iterator is exhausted or yields another item (break): the list is
\* sorted and the outer loop goes to the next list
FixDirExit ==
    /\ pc = "fix"
    /\ IF it <= Len(DataList) THEN urlsplit(DataList[it]).scheme # SchemeDir ELSE TRUE
    /\ IF data_idx = 1
       THEN /\ l_ins' = Sort(l_ins)
            /\ data_idx' = 2
            /\ it' = 1
            /\ UNCHANGED <<l_outs, pc>>
       ELSE /\ l_outs' = Sort(l_outs)
            /\ pc' = "done"
            /\ UNCHANGED <<l_ins, data_idx, it>>
    /\ UNCHANGED <<dp_file, lineno, inputs, outputs>>
    /\ UNCHANGED notLogVars

Next ==
    \/ ReadLine
    \/ MakeLists
    \/ FixDirEntry
    \/ FixDirExit

Spec == Init /\ [][Next]_vars

----------------------------------------------------------------------------
(* Paths: pathlib.Path and os.path.commonpath *)

RECURSIVE DropEmpty(_)
DropEmpty(parts) ==
    IF parts = <<>> THEN <<>>
    ELSE IF parts[1] = <<>> \/ parts[1] = <<".">>
         THEN DropEmpty(Tail(parts))
         ELSE <<parts[1]>> \o DropEmpty(Tail(parts))

\* the components of an absolute path
Parts(path) == DropEmpty(split(path, "/"))

\* "/" + "/".join(parts)
RECURSIVE JoinAbs(_)
JoinAbs(parts) ==
    IF parts = <<>> THEN <<"/">>
    ELSE IF Len(parts) = 1 THEN <<"/">> \o parts[1]
    ELSE JoinAbs(SubSeq(parts, 1, Len(parts) - 1)) \o <<"/">> \o parts[Len(parts)]

\* str(Path(path).parents[0]) for an absolute path with a last component
Parent(path) == JoinAbs(SubSeq(Parts(path), 1, Len(Parts(path)) - 1))

\* the longest common prefix of two lists of components
RECURSIVE CommonParts(_, _)
CommonParts(p, q) ==
    IF p = <<>> \/ q = <<>> \/ p[1] # q[1] THEN <<>>
    ELSE <<p[1]>> \o CommonParts(Tail(p), Tail(q))

\* os.path.commonpath([p, q]) for two absolute paths
commonpath(p, q) == JoinAbs(CommonParts(Parts(p), Parts(q)))

----------------------------------------------------------------------------
(* get_common_paths *)

HostK == <<"k">>

\* dir:// references: with the end slash, nested, and one left without it
CPDirs ==
    { Url(SchemeDir, Hostname, <<"/", "a", "/">>),
      Url(SchemeDir, Hostname, <<"/", "a", "/", "b", "/">>),
      Url(SchemeDir, Hostname, <<"/", "c", "/">>),
      Url(SchemeDir, Hostname, <<"/", "b">>) }

CPFiles ==
    { Url(SchemeFile, Hostname, <<"/", "f">>),
      Url(SchemeFile, Hostname, <<"/", "g">>),
      Url(SchemeFile, Hostname, <<"/", "a", "/", "f">>),
      Url(SchemeFile, Hostname, <<"/", "a", "/", "g">>),
      Url(SchemeFile, Hostname, <<"/", "a", "/", "b", "/", "f">>),
      Url(SchemeFile, Hostname, <<"/", "a", "/", "c", "/", "g">>),
      Url(SchemeFile, Hostname, <<"/", "b", "/", "f">>),
      Url(SchemeFile, Hostname, <<"/", "b", "/", "g">>),
      Url(SchemeFile, HostK, <<"/", "a", "/", "c", "/", "f">>),
      Url(SchemeFile, HostK, <<"/", "b", "/", "f">>),
      Url(SchemeFile, HostK, <<"/", "g">>) }

\* the URLs in the order list.sort() gives them
CPUrls == SortedList(CPDirs \cup CPFiles)

\* the sorted lists of at most MaxUrls URLs, a URL may occur more than once
SortedUrlLists ==
    UNION { { [n \in 1..len |-> CPUrls[f[n]]] :
                f \in { g \in [1..len -> 1..Len(CPUrls)] :
                          \A n \in 1..(len - 1) : g[n] <= g[n + 1] } } :
            len \in 0..MaxUrls }

\* the path of a dir:// item is a common path already, added once
AddDirPath(common_paths, path) ==
    IF ~In(path, common_paths) THEN Append(common_paths, path) ELSE common_paths

\* AddCommonPath, but the path is dropped
AddCommonPath_Dropped(common_paths, path) == common_paths

\* AddCommonPath, but without the membership test
AddCommonPath_NoTest(common_paths, path) == Append(common_paths, path)

\* common_path is stored in list_common_paths, once
AddCommonPath(common_paths, path) ==
    IF ~In(path, common_paths) THEN Append(common_paths, path) ELSE common_paths

\* FileStep, but every file starts a new path
FileStep_AlwaysNew(path, common) ==
    [store |-> TRUE, common_path |-> Parent(path)]

\* FileStep, but the test is on the empty string, as the comment words it
FileStep_TestEmpty(path, common) ==
    LET tmp == commonpath(path, common)
    IN IF tmp # <<>>
       THEN [store |-> FALSE, common_path |-> tmp]
       ELSE [store |-> TRUE, common_path |-> Parent(path)]

\* FileStep, but at the root the common path is not seeded again
FileStep_KeepRoot(path, common) ==
    LET tmp == commonpath(path, common)
    IN [store |-> tmp = <<"/">>, common_path |-> tmp]

\* the turn of the loop for a file with the path given; store tells whether the previous common_path goes to list_common_paths
FileStep(path, common) ==
    LET tmp == commonpath(path, common)
    IN IF tmp # <<"/">>
       THEN [store |-> FALSE, common_path |-> tmp]
       ELSE [store |-> TRUE, common_path |-> Parent(path)]

\* one turn of the end-slash loop: append, then remove
EndSlashItem(common_paths, item) ==
    IF item[Len(item)] # "/"
    THEN Remove(Append(common_paths, item \o <<"/">>), item)
    ELSE common_paths

IdleLog ==
    /\ dp_file = <<>>
    /\ lineno = 0
    /\ inputs = {}
    /\ outputs = {}
    /\ l_ins = <<>>
    /\ l_outs = <<>>
    /\ data_idx = 0
    /\ it = 0
    /\ pc = "idle"

InitCP ==
    /\ IdleLog
    /\ IdleMD
    /\ IdleFX
    /\ IdleCA
    /\ IdleMain
    /\ IdleFlow
    /\ url_list \in SortedUrlLists
    /\ i = 0
    /\ list_common_paths = <<>>
    /\ common_path = <<>>
    /\ cp_it = 0
    /\ cp_pc = "dirs"

\* the first loop yields a dir:// item
CPDirItem ==
    /\ cp_pc = "dirs"
    /\ i < Len(url_list)
    /\ urlsplit(url_list[i + 1]).scheme = SchemeDir
    /\ list_common_paths' = AddDirPath(list_common_paths, urlsplit(url_list[i + 1]).path)
    /\ i' = i + 1
    /\ UNCHANGED <<url_list, common_path, cp_it, cp_pc>>
    /\ UNCHANGED notCpVars

\* the list is empty or holds directories only: return
CPReturnDirs ==
    /\ cp_pc = "dirs"
    /\ i = Len(url_list)
    /\ cp_pc' = "done"
    /\ UNCHANGED <<url_list, i, list_common_paths, common_path, cp_it>>
    /\ UNCHANGED notCpVars

\* the first loop yields the first file: its directory is the common path
CPFirstFile ==
    /\ cp_pc = "dirs"
    /\ i < Len(url_list)
    /\ urlsplit(url_list[i + 1]).scheme # SchemeDir
    /\ common_path' = Parent(urlsplit(url_list[i + 1]).path)
    /\ i' = i + 1
    /\ cp_it' = 1
    /\ cp_pc' = "files"
    /\ UNCHANGED <<url_list, list_common_paths>>
    /\ UNCHANGED notCpVars

\* url_list[i:]
UrlFilesList == SubSeq(url_list, i + 1, Len(url_list))

\* the loop over url_files_list yields an item
CPNextFile ==
    /\ cp_pc = "files"
    /\ cp_it <= Len(UrlFilesList)
    /\ LET step == FileStep(urlsplit(UrlFilesList[cp_it]).path, common_path)
       IN /\ list_common_paths' =
                IF step.store
                THEN AddCommonPath(list_common_paths, common_path)
                ELSE list_common_paths
          /\ common_path' = step.common_path
    /\ cp_it' = cp_it + 1
    /\ UNCHANGED <<url_list, i, cp_pc>>
    /\ UNCHANGED notCpVars

\* the loop is over: the last common_path is added
CPLastPath ==
    /\ cp_pc = "files"
    /\ cp_it > Len(UrlFilesList)
    /\ list_common_paths' = AddCommonPath(list_common_paths, common_path)
    /\ cp_it' = 1
    /\ cp_pc' = "slash"
    /\ UNCHANGED <<url_list, i, common_path>>
    /\ UNCHANGED notCpVars

\* the end-slash loop yields an item
CPEndSlash ==
    /\ cp_pc = "slash"
    /\ cp_it <= Len(list_common_paths)
    /\ list_common_paths' = EndSlashItem(list_common_paths, list_common_paths[cp_it])
    /\ cp_it' = cp_it + 1
    /\ UNCHANGED <<url_list, i, common_path, cp_pc>>
    /\ UNCHANGED notCpVars

\* the end-slash loop is over: return
CPReturn ==
    /\ cp_pc = "slash"
    /\ cp_it > Len(list_common_paths)
    /\ cp_pc' = "done"
    /\ UNCHANGED <<url_list, i, list_common_paths, common_path, cp_it>>
    /\ UNCHANGED notCpVars

NextCP ==
    \/ CPDirItem
    \/ CPReturnDirs
    \/ CPFirstFile
    \/ CPNextFile
    \/ CPLastPath
    \/ CPEndSlash
    \/ CPReturn

SpecCP == InitCP /\ [][NextCP]_vars

----------------------------------------------------------------------------
(* add_manual_datasets: the datasets the user declared are merged into the
   list the runtime detected, and entries inside a directory are erased *)

\* the directories, regular files and other objects of the file system
FSDirs == { <<"/", "a">>, <<"/", "a", "/", "b">>, <<"/", "b">>, <<"/", "c">> }
FSFiles == { <<"/", "a", "/", "f">>, <<"/", "a", "/", "b", "/", "g">>,
             <<"/", "b", ".", "z">>, <<"/", "c", "/", "f">> }
FSOthers == { <<"/", "s">> }

\* str(Path(item).expanduser().resolve()) for an absolute path without links
Resolve(item) == JoinAbs(Parts(item))

\* Path(item).exists(), os.path.isfile and os.path.isdir
Exists(item) == Resolve(item) \in FSDirs \cup FSFiles \cup FSOthers
IsFile(path) == path \in FSFiles
IsDir(path) == path \in FSDirs

\* the path exists and is neither a regular file nor a directory
IsOther(item) == Exists(item) /\ ~IsFile(Resolve(item)) /\ ~IsDir(Resolve(item))

\* the paths a user writes under 'inputs' or 'outputs': a directory with an
\* end slash, a nested directory, two files, a socket and a missing path
DeclaredItems ==
    { <<"/", "a", "/">>, <<"/", "a", "/", "b">>, <<"/", "a", "/", "f">>,
      <<"/", "c", "/", "f">>, <<"/", "s">>, <<"/", "x">> }

DeclaredLists ==
    UNION { [1..n -> DeclaredItems] : n \in 0..MaxDeclared }

\* the entries process_accessed_files hands over: directories with the end
\* slash, one without it, and files inside and outside of them
DetectedUris ==
    { Url(SchemeDir, Hostname, <<"/", "a", "/">>),
      Url(SchemeDir, Hostname, <<"/", "a", "/", "b", "/">>),
      Url(SchemeDir, Hostname, <<"/", "b">>),
      Url(SchemeFile, Hostname, <<"/", "a", "/", "f">>),
      Url(SchemeFile, Hostname, <<"/", "a", "/", "b", "/", "g">>),
      Url(SchemeFile, Hostname, <<"/", "b", ".", "z">>),
      Url(SchemeFile, Hostname, <<"/", "c", "/", "f">>) }

DetectedLists ==
    { SortedList(S) : S \in { T \in SUBSET DetectedUris : Cardinality(T) <= MaxUrls } }

NewDataEntity_MissingIsFile(item) ==
    LET resolved_data_entity == Resolve(item)
    IN  IF ~Exists(item) \/ IsFile(resolved_data_entity)
        THEN [outcome |-> "entity",
              uri |-> Url(SchemeFile, Hostname, resolved_data_entity)]
        ELSE IF IsDir(resolved_data_entity)
        THEN [outcome |-> "entity",
              uri |-> Url(SchemeDir, Hostname, resolved_data_entity \o <<"/">>)]
        ELSE [outcome |-> "raise", uri |-> <<>>]

\* what one declared path becomes: skipped, an entity, or a fatal error
NewDataEntity(item) ==
    LET resolved_data_entity == Resolve(item)
    IN  IF ~Exists(item)
        THEN [outcome |-> "continue", uri |-> <<>>]
        ELSE IF IsFile(resolved_data_entity)
        THEN [outcome |-> "entity",
              uri |-> Url(SchemeFile, Hostname, resolved_data_entity)]
        ELSE IF IsDir(resolved_data_entity)
        THEN [outcome |-> "entity",
              uri |-> Url(SchemeDir, Hostname, resolved_data_entity \o <<"/">>)]
        ELSE [outcome |-> "raise", uri |-> <<>>]

AppendEntity_NoTest(l, new_data_entity) == Append(l, new_data_entity)

\* if new_data_entity not in data_list: data_list.append(new_data_entity)
AppendEntity(l, new_data_entity) ==
    IF ~In(new_data_entity, l) THEN Append(l, new_data_entity) ELSE l

\* the first loop over data_list: the directories up to the first file
RECURSIVE ScanDirectories(_, _)
ScanDirectories(l, directories_list) ==
    IF l = <<>>
    THEN [directories_list |-> directories_list, file_found |-> FALSE]
    ELSE LET path == urlsplit(l[1]).path
         IN  IF urlsplit(l[1]).scheme = SchemeDir
             THEN ScanDirectories(Tail(l),
                    IF /\ ~In(path, directories_list)
                       /\ ~\E n \in 1..Len(directories_list) :
                              StartsWith(path, directories_list[n])
                    THEN Append(directories_list, path)
                    ELSE directories_list)
             ELSE [directories_list |-> directories_list, file_found |-> TRUE]

\* any(path != dir_path and path.startswith(dir_path) for dir_path in ...)
BelongsToDataset(path, directories_list) ==
    \E n \in 1..Len(directories_list) :
        path # directories_list[n] /\ StartsWith(path, directories_list[n])

\* the second loop: over data_list_copy, removing from data_list
RECURSIVE EraseInside(_, _, _)
EraseInside(data_list_copy, l, directories_list) ==
    IF data_list_copy = <<>> THEN l
    ELSE EraseInside(Tail(data_list_copy),
            IF BelongsToDataset(urlsplit(data_list_copy[1]).path, directories_list)
            THEN Remove(l, data_list_copy[1])
            ELSE l,
            directories_list)

InitMD ==
    /\ IdleLog
    /\ IdleCP
    /\ IdleFX
    /\ IdleCA
    /\ IdleMain
    /\ IdleFlow
    /\ data_entities_list \in DeclaredLists
    /\ md_detected \in DetectedLists
    /\ md_data_list = md_detected
    /\ md_k = 0
    /\ md_pc = "items"

\* the declared path does not exist: warning, continue
MDContinue ==
    /\ md_pc = "items"
    /\ md_k < Len(data_entities_list)
    /\ NewDataEntity(data_entities_list[md_k + 1]).outcome = "continue"
    /\ md_k' = md_k + 1
    /\ UNCHANGED <<data_entities_list, md_detected, md_data_list, md_pc>>
    /\ UNCHANGED notMdVars

\* the declared path is neither a file nor a directory: FileNotFoundError
MDRaise ==
    /\ md_pc = "items"
    /\ md_k < Len(data_entities_list)
    /\ NewDataEntity(data_entities_list[md_k + 1]).outcome = "raise"
    /\ md_pc' = "raised"
    /\ UNCHANGED <<data_entities_list, md_detected, md_data_list, md_k>>
    /\ UNCHANGED notMdVars

\* the declared path is a file or a directory: appended unless present
MDEntity ==
    /\ md_pc = "items"
    /\ md_k < Len(data_entities_list)
    /\ NewDataEntity(data_entities_list[md_k + 1]).outcome = "entity"
    /\ md_data_list' = AppendEntity(md_data_list,
                                 NewDataEntity(data_entities_list[md_k + 1]).uri)
    /\ md_k' = md_k + 1
    /\ UNCHANGED <<data_entities_list, md_detected, md_pc>>
    /\ UNCHANGED notMdVars

\* data_list.sort() after the last declared path
MDSort ==
    /\ md_pc = "items"
    /\ md_k = Len(data_entities_list)
    /\ md_data_list' = Sort(md_data_list)
    /\ md_pc' = "erase"
    /\ UNCHANGED <<data_entities_list, md_detected, md_k>>
    /\ UNCHANGED notMdVars

\* the two loops that erase what is inside a directory, and the return
MDErase ==
    /\ md_pc = "erase"
    /\ LET scan == ScanDirectories(md_data_list, <<>>)
       IN  md_data_list' = IF scan.file_found
                        THEN EraseInside(md_data_list, md_data_list, scan.directories_list)
                        ELSE md_data_list
    /\ md_pc' = "done"
    /\ UNCHANGED <<data_entities_list, md_detected, md_k>>
    /\ UNCHANGED notMdVars

NextMD ==
    \/ MDContinue
    \/ MDRaise
    \/ MDEntity
    \/ MDSort
    \/ MDErase

SpecMD == InitMD /\ [][NextMD]_vars

----------------------------------------------------------------------------
(* fix_in_files_at_out_dirs: input files inside an output directory are
   removed from the inputs *)

\* entries of the inputs: a directory, and files inside and outside of the
\* directories of the outputs
FXInUris ==
    { Url(SchemeDir, Hostname, <<"/", "a", "/">>),
      Url(SchemeFile, Hostname, <<"/", "a", "/", "f">>),
      Url(SchemeFile, Hostname, <<"/", "a", "/", "b", "/", "g">>),
      Url(SchemeFile, Hostname, <<"/", "b", ".", "z">>),
      Url(SchemeFile, Hostname, <<"/", "b", "/", "f">>),
      Url(SchemeFile, Hostname, <<"/", "c", "/", "f">>) }

\* entries of the outputs: directories as process_accessed_files and
\* add_manual_datasets leave them (with one separator, with none, with two)
\* and a file
FXOutUris ==
    { Url(SchemeDir, Hostname, <<"/", "a", "/">>),
      Url(SchemeDir, Hostname, <<"/", "a", "/", "/">>),
      Url(SchemeDir, Hostname, <<"/", "a", "/", "b", "/">>),
      Url(SchemeDir, Hostname, <<"/", "b">>),
      Url(SchemeFile, Hostname, <<"/", "c", "/", "f">>) }

FXInLists ==
    { SortedList(S) : S \in { T \in SUBSET FXInUris : Cardinality(T) <= MaxUrls } }

FXOutLists ==
    { SortedList(S) : S \in { T \in SUBSET FXOutUris : Cardinality(T) <= MaxUrls } }

\* the first loop: the paths of the dir:// items up to the first other item
RECURSIVE OutDirectories(_, _)
OutDirectories(l, directories_list) ==
    IF l = <<>> THEN directories_list
    ELSE IF urlsplit(l[1]).scheme = SchemeDir
    THEN OutDirectories(Tail(l),
            IF ~In(urlsplit(l[1]).path, directories_list)
            THEN Append(directories_list, urlsplit(l[1]).path)
            ELSE directories_list)
    ELSE directories_list

\* LeadingDirs, but the directories are not sliced out
LeadingDirs_None(l) == 0

\* the second loop: i, the number of dir:// items before the first other item
RECURSIVE LeadingDirs(_)
LeadingDirs(l) ==
    IF l = <<>> THEN 0
    ELSE IF urlsplit(l[1]).scheme = SchemeDir THEN 1 + LeadingDirs(Tail(l))
    ELSE 0

\* file_found after the second loop
FileFound(l) == LeadingDirs(l) < Len(l)

\* any(url_parts.path.startswith(dir_path) for dir_path in directories_list)
InOutDir(path, directories_list) ==
    \E n \in 1..Len(directories_list) : StartsWith(path, directories_list[n])

InitFX ==
    /\ IdleLog
    /\ IdleCP
    /\ IdleMD
    /\ IdleCA
    /\ IdleMain
    /\ IdleFlow
    /\ inputs_list \in FXInLists
    /\ outputs_list \in FXOutLists
    /\ fx_inputs = inputs_list
    /\ fx_directories_list = <<>>
    /\ url_files_list = <<>>
    /\ fx_it = 0
    /\ fx_pc = "collect"

\* the loop over outputs_list
FXCollect ==
    /\ fx_pc = "collect"
    /\ fx_directories_list' = OutDirectories(outputs_list, <<>>)
    /\ fx_pc' = "count"
    /\ UNCHANGED <<inputs_list, outputs_list, fx_inputs, url_files_list, fx_it>>
    /\ UNCHANGED notFxVars

\* the loop over inputs_list finds no file: both lists are returned as they are
FXReturnNoFile ==
    /\ fx_pc = "count"
    /\ ~FileFound(inputs_list)
    /\ fx_pc' = "done"
    /\ UNCHANGED <<inputs_list, outputs_list, fx_inputs, fx_directories_list,
                   url_files_list, fx_it>>
    /\ UNCHANGED notFxVars

\* the loop over inputs_list finds a file: url_files_list = inputs_list[i:]
FXSlice ==
    /\ fx_pc = "count"
    /\ FileFound(inputs_list)
    /\ url_files_list' = SubSeq(inputs_list, LeadingDirs(inputs_list) + 1,
                                Len(inputs_list))
    /\ fx_it' = 0
    /\ fx_pc' = "files"
    /\ UNCHANGED <<inputs_list, outputs_list, fx_inputs, fx_directories_list>>
    /\ UNCHANGED notFxVars

\* an item of url_files_list inside an output directory: inputs_list.remove
FXRemove ==
    /\ fx_pc = "files"
    /\ fx_it < Len(url_files_list)
    /\ InOutDir(urlsplit(url_files_list[fx_it + 1]).path, fx_directories_list)
    /\ inputs_list' = Remove(inputs_list, url_files_list[fx_it + 1])
    /\ fx_it' = fx_it + 1
    /\ UNCHANGED <<outputs_list, fx_inputs, fx_directories_list, url_files_list,
                   fx_pc>>
    /\ UNCHANGED notFxVars

\* an item of url_files_list outside of every output directory
FXKeep ==
    /\ fx_pc = "files"
    /\ fx_it < Len(url_files_list)
    /\ ~InOutDir(urlsplit(url_files_list[fx_it + 1]).path, fx_directories_list)
    /\ fx_it' = fx_it + 1
    /\ UNCHANGED <<inputs_list, outputs_list, fx_inputs, fx_directories_list,
                   url_files_list, fx_pc>>
    /\ UNCHANGED notFxVars

\* return inputs_list, outputs_list
FXReturn ==
    /\ fx_pc = "files"
    /\ fx_it = Len(url_files_list)
    /\ fx_pc' = "done"
    /\ UNCHANGED <<inputs_list, outputs_list, fx_inputs, fx_directories_list,
                   url_files_list, fx_it>>
    /\ UNCHANGED notFxVars

NextFX ==
    \/ FXCollect
    \/ FXReturnNoFile
    \/ FXSlice
    \/ FXRemove
    \/ FXKeep
    \/ FXReturn

SpecFX == InitFX /\ [][NextFX]_vars

----------------------------------------------------------------------------
(* fix_dir_url, as main applies it: add_dataset_file_to_crate makes the
   identifier of every input and output, wrroc_create_action applies
   fix_dir_url to each identifier again. Runs without data_persistence. *)

SchemeFilePrefix == SchemeFile \o <<":", "/", "/">>

fix_dir_url_DirAlwaysSlash(in_url) ==
    LET runtime_url == urlsplit(in_url)
    IN  IF runtime_url.scheme = SchemeDir
        THEN SchemeDir \o <<":", "/", "/">> \o runtime_url.netloc
                \o runtime_url.path \o <<"/">>
        ELSE in_url

fix_dir_url_AlwaysSlash(in_url) ==
    LET runtime_url == urlsplit(in_url)
    IN  IF runtime_url.scheme = SchemeDir
        THEN SchemeFilePrefix \o runtime_url.netloc \o runtime_url.path \o <<"/">>
        ELSE in_url

\* dir:// becomes file://, with an end slash
fix_dir_url(in_url) ==
    LET runtime_url == urlsplit(in_url)
    IN  IF runtime_url.scheme = SchemeDir
        THEN LET new_url == SchemeFilePrefix \o runtime_url.netloc \o runtime_url.path
             IN  IF new_url[Len(new_url)] # "/"
                 THEN new_url \o <<"/">>
                 ELSE new_url
        ELSE in_url

\* os.path.getmtime(url_parts.path) succeeds
PathExists(in_url) == Exists(urlsplit(in_url).path)

\* what add_dataset_file_to_crate returns when persist is False
DatasetId(in_url) ==
    IF urlsplit(in_url).scheme = SchemeFile THEN in_url ELSE fix_dir_url(in_url)

\* the entries of ins: directories with one end slash, with none and with
\* two, with the scheme in capitals and of another host, files, and an
\* entry that is no URI (the path of none exists)
CAInUrls ==
    { Url(SchemeDir, Hostname, <<"/", "a", "/">>),
      Url(SchemeDir, Hostname, <<"/", "a">>),
      Url(SchemeDir, Hostname, <<"/", "a", "/", "/">>),
      Url(<<"D", "I", "R">>, Hostname, <<"/", "c">>),
      Url(SchemeDir, <<"k">>, <<"/", "a", "/", "b">>),
      Url(SchemeFile, Hostname, <<"/", "a", "/", "f">>),
      Url(SchemeFile, Hostname, <<"/", "c", "/", "f">>),
      <<"m">> }

\* the entries of outs
CAOutUrls ==
    { Url(SchemeDir, Hostname, <<"/", "a">>),
      Url(SchemeDir, Hostname, <<"/", "b", "/">>),
      Url(SchemeFile, Hostname, <<"/", "a", "/", "f">>) }

CAInLists ==
    { SortedList(S) : S \in { T \in SUBSET CAInUrls : Cardinality(T) <= MaxUrls } }

CAOutLists ==
    { SortedList(S) : S \in { T \in SUBSET CAOutUrls : Cardinality(T) <= MaxUrls } }

\* the RO-Crate itself, the last result
CrateId == <<".", "/">>

InitCA ==
    /\ IdleLog
    /\ IdleCP
    /\ IdleMD
    /\ IdleFX
    /\ IdleMain
    /\ IdleFlow
    /\ ca_ins \in CAInLists
    /\ ca_outs \in CAOutLists
    /\ fixed_ins = <<>>
    /\ fixed_outs = <<>>
    /\ ca_object = <<>>
    /\ ca_result = <<>>
    /\ ca_pc = "datasets"

\* the next entry add_dataset_file_to_crate is called with
NextDataset ==
    IF Len(fixed_ins) < Len(ca_ins) THEN ca_ins[Len(fixed_ins) + 1]
    ELSE ca_outs[Len(fixed_outs) + 1]

\* for item in ins: fixed_ins.append(add_dataset_file_to_crate(...))
DSIn ==
    /\ ca_pc = "datasets"
    /\ Len(fixed_ins) < Len(ca_ins)
    /\ PathExists(NextDataset)
    /\ fixed_ins' = Append(fixed_ins, DatasetId(NextDataset))
    /\ UNCHANGED <<ca_ins, ca_outs, fixed_outs, ca_object, ca_result, ca_pc>>
    /\ UNCHANGED notCaVars

\* for item in outs: fixed_outs.append(add_dataset_file_to_crate(...))
DSOut ==
    /\ ca_pc = "datasets"
    /\ Len(fixed_ins) = Len(ca_ins)
    /\ Len(fixed_outs) < Len(ca_outs)
    /\ PathExists(NextDataset)
    /\ fixed_outs' = Append(fixed_outs, DatasetId(NextDataset))
    /\ UNCHANGED <<ca_ins, ca_outs, fixed_ins, ca_object, ca_result, ca_pc>>
    /\ UNCHANGED notCaVars

\* os.path.getmtime raises: the path of the entry does not exist
DSRaise ==
    /\ ca_pc = "datasets"
    /\ Len(fixed_ins) < Len(ca_ins) \/ Len(fixed_outs) < Len(ca_outs)
    /\ ~PathExists(NextDataset)
    /\ ca_pc' = "raised"
    /\ UNCHANGED <<ca_ins, ca_outs, fixed_ins, fixed_outs, ca_object, ca_result>>
    /\ UNCHANGED notCaVars

\* wrroc_create_action(compss_crate, main_entity, author_list, fixed_ins, ...)
CACall ==
    /\ ca_pc = "datasets"
    /\ Len(fixed_ins) = Len(ca_ins)
    /\ Len(fixed_outs) = Len(ca_outs)
    /\ ca_pc' = "create_action"
    /\ UNCHANGED <<ca_ins, ca_outs, fixed_ins, fixed_outs, ca_object, ca_result>>
    /\ UNCHANGED notCaVars

\* for item in ins: create_action.append_to("object", fix_dir_url(item))
CAObject ==
    /\ ca_pc = "create_action"
    /\ Len(ca_object) < Len(fixed_ins)
    /\ ca_object' = Append(ca_object, fix_dir_url(fixed_ins[Len(ca_object) + 1]))
    /\ UNCHANGED <<ca_ins, ca_outs, fixed_ins, fixed_outs, ca_result, ca_pc>>
    /\ UNCHANGED notCaVars

\* for item in outs: create_action.append_to("result", fix_dir_url(item))
CAResult ==
    /\ ca_pc = "create_action"
    /\ Len(ca_object) = Len(fixed_ins)
    /\ Len(ca_result) < Len(fixed_outs)
    /\ ca_result' = Append(ca_result, fix_dir_url(fixed_outs[Len(ca_result) + 1]))
    /\ UNCHANGED <<ca_ins, ca_outs, fixed_ins, fixed_outs, ca_object, ca_pc>>
    /\ UNCHANGED notCaVars

\* create_action.append_to("result", {"@id": "./"}) and the return
CAReturn ==
    /\ ca_pc = "create_action"
    /\ Len(ca_object) = Len(fixed_ins)
    /\ Len(ca_result) = Len(fixed_outs)
    /\ ca_result' = Append(ca_result, CrateId)
    /\ ca_pc' = "done"
    /\ UNCHANGED <<ca_ins, ca_outs, fixed_ins, fixed_outs, ca_object>>
    /\ UNCHANGED notCaVars

NextCA ==
    \/ DSIn
    \/ DSOut
    \/ DSRaise
    \/ CACall
    \/ CAObject
    \/ CAResult
    \/ CAReturn

SpecCA == InitCA /\ [][NextCA]_vars

----------------------------------------------------------------------------
(* The application source files: get_main_entities chooses the main entity,
   add_application_source_files registers every source file in the crate *)

\* None
None == <<>>

\* no exception
NoError == "no error"

\* the directories of source files and the files in them, the file outside
\* of them, and the working directory
SourceDirs == { <<"/", "s">>, <<"/", "s", "2">>, <<"/", "d">> }
SourceNames ==
    [d \in SourceDirs |->
        IF d = <<"/", "s">> THEN { <<"m", ".", "p", "y">>, <<"u", ".", "p", "y">> }
        ELSE IF d = <<"/", "s", "2">> THEN { <<"n", ".", "p", "y">> }
        ELSE { <<"r", ".", "t", "x", "t">> }]
OtherSourceFiles == { <<"/", "o", "/", "w", ".", "p", "y">> }
Cwd == <<"/", "s">>

\* os.path.join(a, b)
PathJoin(a, b) ==
    IF b # <<>> /\ b[1] = "/" THEN b
    ELSE IF a = <<>> \/ a[Len(a)] = "/" THEN a \o b
    ELSE a \o <<"/">> \o b

\* every regular file, by its resolved name
AllSourceFiles ==
    OtherSourceFiles \cup UNION { { PathJoin(d, n) : n \in SourceNames[d] } : d \in SourceDirs }

\* str(Path(p).expanduser().resolve())
ResolveSource(p) == JoinAbs(Parts(PathJoin(Cwd, p)))

SourceExists(p) == ResolveSource(p) \in AllSourceFiles \cup SourceDirs
SourceIsFile(p) == ResolveSource(p) \in AllSourceFiles
SourceIsDir(p) == ResolveSource(p) \in SourceDirs

\* s.endswith(t)
EndsWith(s, t) == Len(t) <= Len(s) /\ SubSeq(s, Len(s) - Len(t) + 1, Len(s)) = t

\* Path(name).suffix: from the last dot of the last component
Suffix(name) ==
    LET last == IF Parts(name) = <<>> THEN <<>> ELSE Parts(name)[Len(Parts(name))]
        dots == { n \in 2..Len(last) : last[n] = "." }
    IN  IF dots = {} THEN <<>>
        ELSE SubSeq(last, CHOOSE n \in dots : \A k \in dots : k <= n, Len(last))

CodeSuffixes == { <<".", "p", "y">>, <<".", "j", "a", "v", "a">>, <<".", "j", "a", "r">>, <<".", "c", "l", "a", "s", "s">> }

\* what the YAML file can hold under 'sources', 'sources_main_file', and
\* the second line of the log
NoSources == [key |-> FALSE, list |-> <<>>]
NoMainFile == <<>>
SourceItems == { <<"/", "s">>, <<"/", "s", "2">>, <<"/", "d">>, <<"/", "o", "/", "w", ".", "p", "y">>, <<"/", "x">> }
SourcesValues ==
    {NoSources}
        \cup { [key |-> TRUE, list |-> l] :
                 l \in UNION { [1..n -> SourceItems] : n \in 0..MaxSources } }
MainFileValues == { NoMainFile, <<"/", "o", "/", "w", ".", "p", "y">>, <<"u", ".", "p", "y">>, <<"n", ".", "p", "y">>, <<"q", ".", "p", "y">> }
SecondLines == { <<"m", ".", "p", "y">>, <<"n", ".", "p", "y">> }

\* the orders in which os.walk can list the files of a directory
RECURSIVE Orders(_)
Orders(S) ==
    IF S = {} THEN { <<>> }
    ELSE UNION { { <<x>> \o o : o \in Orders(S \ {x}) } : x \in S }
Listings == { l \in [SourceDirs -> UNION { Orders(SourceNames[d]) : d \in SourceDirs }] :
                \A d \in SourceDirs : l[d] \in Orders(SourceNames[d]) }

\* yaml_sources_list / sources_list
YamlSourcesList(sources) == IF sources.key THEN sources.list ELSE <<>>

\* the files one entry of 'sources' stands for, in the order they are found
FilesOfSource(source, order) ==
    IF ~SourceExists(source) THEN <<>>
    ELSE IF SourceIsFile(source) THEN <<ResolveSource(source)>>
    ELSE [n \in 1..Len(order[ResolveSource(source)]) |->
            PathJoin(ResolveSource(source), order[ResolveSource(source)][n])]

\* list_of_sources
RECURSIVE ListOfSources(_, _)
ListOfSources(yaml_sources_list, order) ==
    IF yaml_sources_list = <<>> THEN <<>>
    ELSE FilesOfSource(yaml_sources_list[1], order)
            \o ListOfSources(Tail(yaml_sources_list), order)

\* the first element of l that satisfies Test, None when there is none
FirstWith(l, Test(_)) ==
    IF \E n \in 1..Len(l) : Test(l[n])
    THEN l[CHOOSE n \in 1..Len(l) : Test(l[n]) /\ \A k \in 1..(n - 1) : ~Test(l[k])]
    ELSE None

BackupMainEntity_CodeOnly(list_of_sources) ==
    LET IsCode(f) == Suffix(f) \in CodeSuffixes
    IN  IF list_of_sources = <<>> THEN None
        ELSE FirstWith(list_of_sources, IsCode)

\* backup_main_entity
BackupMainEntity(list_of_sources) ==
    LET IsCode(f) == Suffix(f) \in CodeSuffixes
    IN  IF list_of_sources = <<>> THEN None
        ELSE IF FirstWith(list_of_sources, IsCode) # None
        THEN FirstWith(list_of_sources, IsCode)
        ELSE list_of_sources[1]

\* detected_app is a .py name: main_entity after the loop over list_of_sources
DetectedMainEntity(list_of_sources, detected_app) ==
    LET IsApp(f) == EndsWith(f, detected_app)
    IN  FirstWith(list_of_sources, IsApp)

\* the search for sources_main_file in the directories of 'sources': the
\* inner loop stops at the first match, the outer loop goes on
RECURSIVE SearchMainFile(_, _, _, _)
SearchMainFile(yaml_sources_list, list_of_sources, main_file, current) ==
    IF yaml_sources_list = <<>> THEN current
    ELSE LET source == yaml_sources_list[1]
             joined == PathJoin(ResolveSource(source), main_file)
             IsIt(f) == f = joined \/ EndsWith(f, main_file)
             match == FirstWith(list_of_sources, IsIt)
         IN  SearchMainFile(Tail(yaml_sources_list), list_of_sources, main_file,
                IF ~SourceExists(source) \/ SourceIsFile(source) THEN current
                ELSE IF match # None THEN match
                ELSE current)

\* get_main_entities: the exception it raises, or the main entity it returns
get_main_entities(sources, main_file, line2, order) ==
    LET yaml_sources_list == YamlSourcesList(sources)
        list_of_sources == ListOfSources(yaml_sources_list, order)
        backup_main_entity == BackupMainEntity(list_of_sources)
        detected == IF ~sources.key THEN line2
                    ELSE DetectedMainEntity(list_of_sources, line2)
        declared == IF main_file = NoMainFile THEN detected
                    ELSE IF SourceIsFile(main_file) THEN ResolveSource(main_file)
                    ELSE SearchMainFile(yaml_sources_list, list_of_sources,
                                        main_file, detected)
    IN  IF ~sources.key /\ ~SourceIsFile(line2)
        THEN [raised |-> "KeyError", main_entity |-> None]
        ELSE IF declared # None
        THEN [raised |-> NoError, main_entity |-> declared]
        ELSE IF backup_main_entity = None
        THEN [raised |-> "FileNotFoundError", main_entity |-> None]
        ELSE [raised |-> NoError, main_entity |-> backup_main_entity]

\* add_file_to_crate: the main entity is added as the workflow, any other
\* file as a plain file
Role(file_name, entity) == IF file_name # entity THEN "AUXILIARY" ELSE "MAIN"

\* the files of one source, added unless they were added before
RECURSIVE AddFiles(_, _, _)
AddFiles(files, entity, st) ==
    IF files = <<>> THEN st
    ELSE AddFiles(Tail(files), entity,
            IF ~In(files[1], st.added_files)
            THEN [st EXCEPT !.added_files = Append(@, files[1]),
                            !.crate_files = Append(@, [file |-> files[1],
                                                       role |-> Role(files[1], entity)])]
            ELSE st)

\* one turn of "for source in sources_list"
AddSource(source, order, entity, st) ==
    LET resolved_source == ResolveSource(source)
    IN  IF ~SourceExists(source) THEN st
        ELSE IF SourceIsDir(source)
        THEN IF \/ In(resolved_source, st.added_dirs)
                \/ \E n \in 1..Len(st.added_dirs) :
                      StartsWith(resolved_source, st.added_dirs[n])
             THEN st
             ELSE AddFiles(FilesOfSource(source, order), entity,
                           [st EXCEPT !.added_dirs = Append(@, resolved_source)])
        ELSE AddFiles(<<resolved_source>>, entity, st)

\* the stages of main, in the order of the calls
Stages ==
    << "yaml", "root_entity", "get_main_entities", "process_accessed_files",
       "add_application_source_files", "add_manual_datasets",
       "fix_in_files_at_out_dirs", "get_common_paths",
       "add_dataset_file_to_crate", "wrroc_create_action", "write" >>

StageAfter(stage) ==
    LET n == CHOOSE k \in 1..Len(Stages) : Stages[k] = stage
    IN  IF n = Len(Stages) THEN "done" ELSE Stages[n + 1]

AfterStage_GoOn(stage, exception) == StageAfter(stage)

\* where main is after a stage: an exception is caught nowhere
AfterStage(stage, exception) ==
    IF exception # NoError THEN "raised" ELSE StageAfter(stage)

\* stages_done after a stage
DoneAfter(stage, exception) ==
    IF exception # NoError THEN stages_done ELSE Append(stages_done, stage)

InitMain ==
    /\ IdleLog
    /\ IdleCP
    /\ IdleMD
    /\ IdleFX
    /\ IdleCA
    /\ IdleFlow
    /\ yaml_sources \in SourcesValues
    /\ sources_main_file \in MainFileValues
    /\ second_line \in SecondLines
    /\ listing \in Listings
    /\ main_pc = "yaml"
    /\ main_entity = None
    /\ as_k = 0
    /\ added_files = <<>>
    /\ added_dirs = <<>>
    /\ crate_files = <<>>
    /\ stages_done = <<>>
    /\ raised = NoError
    /\ written = 0

\* a stage that touches neither the source files nor the package ends
EndStage(stage, exception) ==
    /\ main_pc = stage
    /\ main_pc' = AfterStage(stage, exception)
    /\ stages_done' = DoneAfter(stage, exception)
    /\ raised' = exception
    /\ UNCHANGED <<yaml_sources, sources_main_file, second_line, listing,
                   as_k, added_files, added_dirs, crate_files, written>>
    /\ UNCHANGED notMainVars

\* yaml.safe_load(f_p): loaded, or the file is missing (the template is
\* written and IOError raised again), or it is no YAML
MainYaml ==
    /\ \E exception \in {NoError, "IOError", "YAMLError"} : EndStage("yaml", exception)
    /\ UNCHANGED main_entity

\* root_entity: an author without a name raises KeyError
MainRootEntity ==
    /\ \E exception \in {NoError, "KeyError"} : EndStage("root_entity", exception)
    /\ UNCHANGED main_entity

\* compss_ver, main_entity, out_profile = get_main_entities(compss_wf_info)
MainGetMainEntities ==
    LET r == get_main_entities(yaml_sources, sources_main_file, second_line, listing)
    IN  /\ EndStage("get_main_entities", r.raised)
        /\ main_entity' = r.main_entity

\* ins, outs = process_accessed_files()
MainProcessAccessedFiles ==
    /\ EndStage("process_accessed_files", NoError)
    /\ UNCHANGED main_entity

\* add_application_source_files: one turn of "for source in sources_list"
ASSource ==
    /\ main_pc = "add_application_source_files"
    /\ as_k < Len(YamlSourcesList(yaml_sources))
    /\ LET st == AddSource(YamlSourcesList(yaml_sources)[as_k + 1], listing, main_entity,
                           [added_files |-> added_files, added_dirs |-> added_dirs,
                            crate_files |-> crate_files])
       IN  /\ added_files' = st.added_files
           /\ added_dirs' = st.added_dirs
           /\ crate_files' = st.crate_files
    /\ as_k' = as_k + 1
    /\ UNCHANGED <<yaml_sources, sources_main_file, second_line, listing, main_pc,
                   main_entity, stages_done, raised, written>>
    /\ UNCHANGED notMainVars

\* add_application_source_files: after the loop; without any source the main
\* entity is added
ASReturn ==
    /\ main_pc = "add_application_source_files"
    /\ as_k = Len(YamlSourcesList(yaml_sources))
    /\ IF Len(YamlSourcesList(yaml_sources)) = 0
       THEN /\ crate_files' = Append(crate_files,
                                     [file |-> main_entity,
                                      role |-> Role(main_entity, main_entity)])
            /\ added_files' = Append(added_files, main_entity)
       ELSE UNCHANGED <<crate_files, added_files>>
    /\ main_pc' = AfterStage("add_application_source_files", NoError)
    /\ stages_done' = DoneAfter("add_application_source_files", NoError)
    /\ UNCHANGED <<yaml_sources, sources_main_file, second_line, listing, main_entity,
                   as_k, added_dirs, raised, written>>
    /\ UNCHANGED notMainVars

\* add_manual_datasets for 'inputs' and for 'outputs': a declared path that
\* is neither file nor directory raises FileNotFoundError
ManualDatasetsOutcomes ==
    { IF \E n \in 1..Len(declared) : IsOther(declared[n])
      THEN "FileNotFoundError" ELSE NoError : declared \in DeclaredLists }

MainManualDatasets ==
    /\ \E exception \in ManualDatasetsOutcomes :
          EndStage("add_manual_datasets", exception)
    /\ UNCHANGED main_entity

\* ins, outs = fix_in_files_at_out_dirs(ins, outs)
MainFixInFiles ==
    /\ EndStage("fix_in_files_at_out_dirs", NoError)
    /\ UNCHANGED main_entity

\* list_common_paths = get_common_paths(ins_and_outs), with data_persistence
MainCommonPaths ==
    /\ EndStage("get_common_paths", NoError)
    /\ UNCHANGED main_entity

\* add_dataset_file_to_crate for every entry of ins and outs: an entry whose
\* path does not exist raises FileNotFoundError
DatasetsOutcomes ==
    { IF \E n \in 1..Len(entries) : ~PathExists(entries[n])
      THEN "FileNotFoundError" ELSE NoError : entries \in CAInLists }

MainDatasets ==
    /\ \E exception \in DatasetsOutcomes :
          EndStage("add_dataset_file_to_crate", exception)
    /\ UNCHANGED main_entity

\* wrroc_create_action: a Submitter without orcid or name raises KeyError
MainCreateAction ==
    /\ \E exception \in {NoError, "KeyError"} : EndStage("wrroc_create_action", exception)
    /\ UNCHANGED main_entity

\* compss_crate.write(folder)
MainWrite ==
    /\ main_pc = "write"
    /\ written' = written + 1
    /\ main_pc' = AfterStage("write", NoError)
    /\ stages_done' = DoneAfter("write", NoError)
    /\ UNCHANGED <<yaml_sources, sources_main_file, second_line, listing, main_entity,
                   as_k, added_files, added_dirs, crate_files, raised>>
    /\ UNCHANGED notMainVars

NextMain ==
    \/ MainYaml
    \/ MainRootEntity
    \/ MainGetMainEntities
    \/ MainProcessAccessedFiles
    \/ ASSource
    \/ ASReturn
    \/ MainManualDatasets
    \/ MainFixInFiles
    \/ MainCommonPaths
    \/ MainDatasets
    \/ MainCreateAction
    \/ MainWrite

SpecMain == InitMain /\ [][NextMain]_vars

----------------------------------------------------------------------------
(* main, from the lists of accessed files to the data entities: what each
   call is handed and what it hands back *)

\* longest sequence of access records of a log followed through main
MaxFlowLog == 2

\* longest list declared under 'inputs' or 'outputs' in such a run
MaxFlowDeclared == 1

\* the logs: the header lines hold one word each
FlowHeaders == << <<"3", ".", "3", "\n">>, <<"m", ".", "p", "y", "\n">>, <<"p", "\n">> >>
FlowLogs ==
    { FlowHeaders \o r : r \in UNION { [1..n -> Lines] : n \in 0..MaxFlowLog } }

\* the paths declared under 'inputs' or 'outputs': those of DeclaredItems
\* and a file whose name extends the name of a directory
FlowDeclaredItems == DeclaredItems \cup { <<"/", "b", ".", "z">> }

FlowDeclaredLists == UNION { [1..n -> FlowDeclaredItems] : n \in 0..MaxFlowDeclared }

\* compss_wf_info["data_persistence"]: no such key, True, False
PersistenceValues == {"absent", "true", "false"}

Persistence_KeyPresent(value) == value # "absent"

\* "data_persistence" in compss_wf_info and compss_wf_info["data_persistence"] is True
Persistence(value) == value = "true"

InitFlow ==
    /\ dp_file \in FlowLogs
    /\ lineno = 0
    /\ inputs = {}
    /\ outputs = {}
    /\ l_ins = <<>>
    /\ l_outs = <<>>
    /\ data_idx = 0
    /\ it = 0
    /\ pc = "read"
    /\ IdleCP
    /\ IdleMD
    /\ IdleFX
    /\ IdleCA
    /\ IdleMain
    /\ main_ins = <<>>
    /\ main_outs = <<>>
    /\ ins_and_outs = <<>>
    /\ data_persistence \in PersistenceValues
    /\ persistence = FALSE
    /\ main_common_paths = <<>>
    /\ dataset_calls = <<>>
    /\ flow_pc = "process_accessed_files"

\* ins, outs = process_accessed_files()
FlowClassified ==
    /\ flow_pc = "process_accessed_files"
    /\ pc = "done"
    /\ main_ins' = l_ins
    /\ main_outs' = l_outs
    /\ dp_file' = <<>>
    /\ lineno' = 0
    /\ inputs' = {}
    /\ outputs' = {}
    /\ l_ins' = <<>>
    /\ l_outs' = <<>>
    /\ data_idx' = 0
    /\ it' = 0
    /\ pc' = "idle"
    /\ flow_pc' = "inputs"
    /\ UNCHANGED <<ins_and_outs, data_persistence, persistence, main_common_paths,
                   dataset_calls>>
    /\ UNCHANGED <<cpVars, mdVars, fxVars, caVars, mainVars>>

\* the YAML file has no key yaml_term: the list goes on as it is
FlowNoTerm(yaml_term, next) ==
    /\ flow_pc = yaml_term
    /\ md_pc = "idle"
    /\ flow_pc' = next
    /\ UNCHANGED <<main_ins, main_outs, ins_and_outs, data_persistence, persistence,
                   main_common_paths, dataset_calls>>
    /\ UNCHANGED <<logVars, cpVars, mdVars, fxVars, caVars, mainVars>>

\* add_manual_datasets(yaml_term, compss_wf_info, data_list) is called
FlowTermCall(yaml_term, data_list) ==
    /\ flow_pc = yaml_term
    /\ md_pc = "idle"
    /\ data_entities_list' \in FlowDeclaredLists
    /\ md_detected' = data_list
    /\ md_data_list' = data_list
    /\ md_k' = 0
    /\ md_pc' = "items"
    /\ UNCHANGED flowVars
    /\ UNCHANGED <<logVars, cpVars, fxVars, caVars, mainVars>>

\* 'inputs' is no key of the YAML file
FlowNoInputs ==
    /\ flow_pc = "inputs"
    /\ FlowNoTerm("inputs", "outputs")

\* ins = add_manual_datasets("inputs", compss_wf_info, ins): the call
FlowInputsCall ==
    /\ flow_pc = "inputs"
    /\ FlowTermCall("inputs", main_ins)

\* ins = add_manual_datasets("inputs", compss_wf_info, ins): the return
FlowInputsReturn ==
    /\ flow_pc = "inputs"
    /\ md_pc = "done"
    /\ main_ins' = md_data_list
    /\ data_entities_list' = <<>>
    /\ md_detected' = <<>>
    /\ md_data_list' = <<>>
    /\ md_k' = 0
    /\ md_pc' = "idle"
    /\ flow_pc' = "outputs"
    /\ UNCHANGED <<main_outs, ins_and_outs, data_persistence, persistence,
                   main_common_paths, dataset_calls>>
    /\ UNCHANGED <<logVars, cpVars, fxVars, caVars, mainVars>>

\* 'outputs' is no key of the YAML file
FlowNoOutputs ==
    /\ flow_pc = "outputs"
    /\ FlowNoTerm("outputs", "fix_in_files_at_out_dirs")

\* outs = add_manual_datasets("outputs", compss_wf_info, outs): the call
FlowOutputsCall ==
    /\ flow_pc = "outputs"
    /\ FlowTermCall("outputs", main_outs)

\* outs = add_manual_datasets("outputs", compss_wf_info, outs): the return
FlowOutputsReturn ==
    /\ flow_pc = "outputs"
    /\ md_pc = "done"
    /\ main_outs' = md_data_list
    /\ data_entities_list' = <<>>
    /\ md_detected' = <<>>
    /\ md_data_list' = <<>>
    /\ md_k' = 0
    /\ md_pc' = "idle"
    /\ flow_pc' = "fix_in_files_at_out_dirs"
    /\ UNCHANGED <<main_ins, ins_and_outs, data_persistence, persistence,
                   main_common_paths, dataset_calls>>
    /\ UNCHANGED <<logVars, cpVars, fxVars, caVars, mainVars>>

\* add_manual_datasets raises FileNotFoundError, main catches nothing
FlowRaised ==
    /\ flow_pc \in {"inputs", "outputs"}
    /\ md_pc = "raised"
    /\ flow_pc' = "raised"
    /\ UNCHANGED <<main_ins, main_outs, ins_and_outs, data_persistence, persistence,
                   main_common_paths, dataset_calls>>
    /\ UNCHANGED <<logVars, cpVars, mdVars, fxVars, caVars, mainVars>>

\* ins, outs = fix_in_files_at_out_dirs(ins, outs): the call
FlowFixCall ==
    /\ flow_pc = "fix_in_files_at_out_dirs"
    /\ fx_pc = "idle"
    /\ inputs_list' = main_ins
    /\ outputs_list' = main_outs
    /\ fx_inputs' = main_ins
    /\ fx_directories_list' = <<>>
    /\ url_files_list' = <<>>
    /\ fx_it' = 0
    /\ fx_pc' = "collect"
    /\ UNCHANGED flowVars
    /\ UNCHANGED <<logVars, cpVars, mdVars, caVars, mainVars>>

\* ins, outs = fix_in_files_at_out_dirs(ins, outs): the return
FlowFixReturn ==
    /\ flow_pc = "fix_in_files_at_out_dirs"
    /\ fx_pc = "done"
    /\ main_ins' = inputs_list
    /\ main_outs' = outputs_list
    /\ inputs_list' = <<>>
    /\ outputs_list' = <<>>
    /\ fx_inputs' = <<>>
    /\ fx_directories_list' = <<>>
    /\ url_files_list' = <<>>
    /\ fx_it' = 0
    /\ fx_pc' = "idle"
    /\ flow_pc' = "ins_and_outs"
    /\ UNCHANGED <<ins_and_outs, data_persistence, persistence, main_common_paths,
                   dataset_calls>>
    /\ UNCHANGED <<logVars, cpVars, mdVars, caVars, mainVars>>

\* ins_and_outs = ins.copy() + outs.copy(); ins_and_outs.sort();
\* list_common_paths = []
FlowMerge ==
    /\ flow_pc = "ins_and_outs"
    /\ ins_and_outs' = Sort(main_ins \o main_outs)
    /\ main_common_paths' = <<>>
    /\ flow_pc' = "data_persistence"
    /\ UNCHANGED <<main_ins, main_outs, data_persistence, persistence, dataset_calls>>
    /\ UNCHANGED <<logVars, cpVars, mdVars, fxVars, caVars, mainVars>>

\* persistence = True; list_common_paths = get_common_paths(ins_and_outs):
\* the call
FlowCommonPathsCall ==
    /\ flow_pc = "data_persistence"
    /\ Persistence(data_persistence)
    /\ persistence' = TRUE
    /\ url_list' = ins_and_outs
    /\ i' = 0
    /\ list_common_paths' = <<>>
    /\ common_path' = <<>>
    /\ cp_it' = 0
    /\ cp_pc' = "dirs"
    /\ flow_pc' = "get_common_paths"
    /\ UNCHANGED <<main_ins, main_outs, ins_and_outs, data_persistence,
                   main_common_paths, dataset_calls>>
    /\ UNCHANGED <<logVars, mdVars, fxVars, caVars, mainVars>>

\* list_common_paths = get_common_paths(ins_and_outs): the return
FlowCommonPathsReturn ==
    /\ flow_pc = "get_common_paths"
    /\ cp_pc = "done"
    /\ main_common_paths' = list_common_paths
    /\ url_list' = <<>>
    /\ i' = 0
    /\ list_common_paths' = <<>>
    /\ common_path' = <<>>
    /\ cp_it' = 0
    /\ cp_pc' = "idle"
    /\ flow_pc' = "fixed_ins"
    /\ UNCHANGED <<main_ins, main_outs, ins_and_outs, data_persistence, persistence,
                   dataset_calls>>
    /\ UNCHANGED <<logVars, mdVars, fxVars, caVars, mainVars>>

\* persistence = False
FlowNoPersistence ==
    /\ flow_pc = "data_persistence"
    /\ ~Persistence(data_persistence)
    /\ persistence' = FALSE
    /\ flow_pc' = "fixed_ins"
    /\ UNCHANGED <<main_ins, main_outs, ins_and_outs, data_persistence,
                   main_common_paths, dataset_calls>>
    /\ UNCHANGED <<logVars, cpVars, mdVars, fxVars, caVars, mainVars>>

\* add_dataset_file_to_crate(compss_crate, item, persistence, list_common_paths):
\* os.path.getmtime raises when the path of the item does not exist
FlowDataset(item, next) ==
    /\ dataset_calls' = Append(dataset_calls,
                               [in_url |-> item, persist |-> persistence,
                                common_paths |-> main_common_paths])
    /\ flow_pc' = IF PathExists(item) THEN next ELSE "raised"
    /\ UNCHANGED <<main_ins, main_outs, ins_and_outs, data_persistence, persistence,
                   main_common_paths>>
    /\ UNCHANGED <<logVars, cpVars, mdVars, fxVars, caVars, mainVars>>

\* for item in ins: one turn
FlowFixedIn ==
    /\ flow_pc = "fixed_ins"
    /\ Len(dataset_calls) < Len(main_ins)
    /\ FlowDataset(main_ins[Len(dataset_calls) + 1], "fixed_ins")

\* for item in ins: the end
FlowFixedIns ==
    /\ flow_pc = "fixed_ins"
    /\ Len(dataset_calls) = Len(main_ins)
    /\ flow_pc' = "fixed_outs"
    /\ UNCHANGED <<main_ins, main_outs, ins_and_outs, data_persistence, persistence,
                   main_common_paths, dataset_calls>>
    /\ UNCHANGED <<logVars, cpVars, mdVars, fxVars, caVars, mainVars>>

\* for item in outs: one turn
FlowFixedOut ==
    /\ flow_pc = "fixed_outs"
    /\ Len(dataset_calls) < Len(main_ins) + Len(main_outs)
    /\ FlowDataset(main_outs[Len(dataset_calls) - Len(main_ins) + 1], "fixed_outs")

\* for item in outs: the end
FlowFixedOuts ==
    /\ flow_pc = "fixed_outs"
    /\ Len(dataset_calls) = Len(main_ins) + Len(main_outs)
    /\ flow_pc' = "done"
    /\ UNCHANGED <<main_ins, main_outs, ins_and_outs, data_persistence, persistence,
                   main_common_paths, dataset_calls>>
    /\ UNCHANGED <<logVars, cpVars, mdVars, fxVars, caVars, mainVars>>

NextFlow ==
    \/ ReadLine
    \/ MakeLists
    \/ FixDirEntry
    \/ FixDirExit
    \/ FlowClassified
    \/ FlowNoInputs
    \/ FlowInputsCall
    \/ FlowInputsReturn
    \/ FlowNoOutputs
    \/ FlowOutputsCall
    \/ FlowOutputsReturn
    \/ FlowRaised
    \/ MDContinue
    \/ MDRaise
    \/ MDEntity
    \/ MDSort
    \/ MDErase
    \/ FlowFixCall
    \/ FlowFixReturn
    \/ FXCollect
    \/ FXReturnNoFile
    \/ FXSlice
    \/ FXRemove
    \/ FXKeep
    \/ FXReturn
    \/ FlowMerge
    \/ FlowCommonPathsCall
    \/ FlowCommonPathsReturn
    \/ FlowNoPersistence
    \/ CPDirItem
    \/ CPReturnDirs
    \/ CPFirstFile
    \/ CPNextFile
    \/ CPLastPath
    \/ CPEndSlash
    \/ CPReturn
    \/ FlowFixedIn
    \/ FlowFixedIns
    \/ FlowFixedOut
    \/ FlowFixedOuts

SpecFlow == InitFlow /\ [][NextFlow]_vars

----------------------------------------------------------------------------
(* The two loops that rewrite the list they iterate over, under the
   interpreter's scheduling: a loop that can take a turn takes it *)

InitLoops == IdleLog /\ IdleCP /\ IdleMD /\ IdleFX /\ IdleCA /\ IdleMain /\ IdleFlow

\* ins, outs = process_accessed_files(), on some log
CallProcessAccessedFiles ==
    /\ pc = "idle"
    /\ cp_pc = "idle"
    /\ dp_file' \in FlowLogs
    /\ pc' = "read"
    /\ UNCHANGED <<lineno, inputs, outputs, l_ins, l_outs, data_idx, it>>
    /\ UNCHANGED notLogVars

\* list_common_paths = get_common_paths(ins_and_outs), on some sorted list
CallGetCommonPaths ==
    /\ pc = "idle"
    /\ cp_pc = "idle"
    /\ url_list' \in SortedUrlLists
    /\ cp_pc' = "dirs"
    /\ UNCHANGED <<i, list_common_paths, common_path, cp_it>>
    /\ UNCHANGED notCpVars

NextLoops ==
    \/ CallProcessAccessedFiles
    \/ CallGetCommonPaths
    \/ ReadLine
    \/ MakeLists
    \/ FixDirEntry
    \/ FixDirExit
    \/ CPDirItem
    \/ CPReturnDirs
    \/ CPFirstFile
    \/ CPNextFile
    \/ CPLastPath
    \/ CPEndSlash
    \/ CPReturn

SpecLoops ==
    /\ InitLoops
    /\ [][NextLoops]_vars
    /\ WF_vars(FixDirEntry)
    /\ WF_vars(FixDirExit)
    /\ WF_vars(CPEndSlash)
    /\ WF_vars(CPReturn)

----------------------------------------------------------------------------
(* The records of the log, as the classification sees them *)

HeaderLines == UNION { {h[1], h[2], h[3]} : h \in Headers }

\* the fields of each line the log can hold
Fields == [l \in Lines \cup HeaderLines |-> FileRecord(l)]

\* the fields of the lines consumed so far
Consumed == [k \in 1..lineno |-> Fields[dp_file[k]]]

\* the positions in h of the lines that split into two fields
Records(h) == { k \in DOMAIN h : Len(h[k]) = 2 }

\* the positions in h of the records of URI u
RecordsOf(h, u) == { k \in Records(h) : h[k][1] = u }

\* k is the first record of its URI in h
IsFirstRecord(h, k) == \A j \in Records(h) : j < k => h[j][1] # h[k][1]

IsInToken(t) == t = TokIN \/ t = TokIN_DELETE

IsOtherToken(t) == ~IsInToken(t) /\ t # TokOUT

\* the classification loop has ended
Classified == pc # "read"

\* number of occurrences of x in list l
Count(l, x) == Cardinality({ n \in 1..Len(l) : l[n] = x })

----------------------------------------------------------------------------
(* C1 *)

\* C1 as stated: after the classification every URI of a well-formed record
\* is in inputs or in outputs, and it is in both only if one of its records
\* carried a token other than IN, IN_DELETE and OUT.
C1_AsStated ==
    Classified =>
        LET h == Consumed
        IN \A k \in Records(h) :
            /\ h[k][1] \in inputs \cup outputs
            /\ h[k][1] \in inputs \cap outputs =>
                   \E j \in RecordsOf(h, h[k][1]) : IsOtherToken(h[j][2])

\* C1 amended: after the classification every URI of a well-formed record is
\* in inputs or in outputs, and it is in both only if one of its records
\* carried a token other than IN, IN_DELETE and OUT, or its first record is
\* an IN or IN_DELETE and a later record of it is an OUT (read, then written).
C1_InOneOrBothByPolicy ==
    Classified =>
        LET h == Consumed
        IN \A k \in Records(h) :
            /\ h[k][1] \in inputs \cup outputs
            /\ h[k][1] \in inputs \cap outputs =>
                   \/ \E j \in RecordsOf(h, h[k][1]) : IsOtherToken(h[j][2])
                   \/ \E j1, j2 \in RecordsOf(h, h[k][1]) :
                         /\ IsFirstRecord(h, j1)
                         /\ IsInToken(h[j1][2])
                         /\ j1 < j2
                         /\ h[j2][2] = TokOUT

\* a classified log with a URI in both sets by an INOUT record and one in
\* both sets by an IN followed by an OUT
C1_Witness ==
    /\ pc = "done"
    /\ LET h == Consumed
       IN /\ \E k \in Records(h) :
                /\ h[k][1] \in inputs \cap outputs
                /\ IsOtherToken(h[k][2])
          /\ \E k \in Records(h) :
                /\ h[k][1] \in inputs \cap outputs
                /\ \A j \in RecordsOf(h, h[k][1]) : ~IsOtherToken(h[j][2])

----------------------------------------------------------------------------
(* C2 *)

\* C2: a URI whose first well-formed record is an OUT is never in inputs and
\* is in outputs, whatever records follow for it.
C2_FirstOutNeverInput ==
    LET h == Consumed
    IN \A k \in Records(h) :
        (IsFirstRecord(h, k) /\ h[k][2] = TokOUT) =>
            h[k][1] \notin inputs /\ h[k][1] \in outputs

\* a classified log where an OUT of a URI is followed by an IN and by an
\* INOUT of it
C2_Witness ==
    /\ pc = "done"
    /\ LET h == Consumed
       IN \E k \in Records(h) :
            /\ IsFirstRecord(h, k)
            /\ h[k][2] = TokOUT
            /\ \E j \in RecordsOf(h, h[k][1]) : IsInToken(h[j][2])
            /\ \E j \in RecordsOf(h, h[k][1]) : IsOtherToken(h[j][2])
            /\ h[k][1] \notin inputs

----------------------------------------------------------------------------
(* C3 *)

\* the line the classification loop is about to take holds a record with
\* an IN or IN_DELETE token
NextIsIn ==
    /\ pc = "read"
    /\ lineno < Len(dp_file)
    /\ Len(Fields[dp_file[lineno + 1]]) = 2
    /\ IsInToken(Fields[dp_file[lineno + 1]][2])

C3_Step ==
    NextIsIn =>
        /\ inputs' = IF Fields[dp_file[lineno + 1]][1] \notin outputs
                     THEN inputs \cup {Fields[dp_file[lineno + 1]][1]}
                     ELSE inputs
        /\ outputs' = outputs

C3_OnlyRead ==
    LET h == Consumed
    IN \A k \in Records(h) :
        (\A j \in RecordsOf(h, h[k][1]) : IsInToken(h[j][2])) =>
            /\ h[k][1] \in inputs
            /\ h[k][1] \notin outputs
            /\ (pc = "fix" /\ data_idx = 1 /\ it = 1) => Count(l_ins, h[k][1]) = 1
            /\ (pc = "done" /\ urlsplit(h[k][1]).scheme = SchemeFile) =>
                   Count(l_ins, h[k][1]) = 1 /\ Count(l_outs, h[k][1]) = 0

\* C3: a record with token IN or IN_DELETE adds its URI to inputs exactly
\* when the URI is not in outputs at that moment and leaves outputs as it
\* is; a URI that only occurs with IN or IN_DELETE is in inputs and not in
\* outputs, once in the sorted list l_ins and, for a file, once in the
\* returned l_ins and not in the returned l_outs.
C3_InRecord == [][C3_Step]_vars /\ []C3_OnlyRead

\* a classified log where a file is read twice with an OUT of another URI in
\* between: it is one entry of the returned inputs
C3_Witness ==
    /\ pc = "done"
    /\ LET h == Consumed
       IN \E j1, k, j2 \in Records(h) :
            /\ j1 < k /\ k < j2
            /\ h[j1][1] = h[j2][1]
            /\ urlsplit(h[j1][1]).scheme = SchemeFile
            /\ \A j \in RecordsOf(h, h[j1][1]) : IsInToken(h[j][2])
            /\ h[k][2] = TokOUT
            /\ Count(l_ins, h[j1][1]) = 1

----------------------------------------------------------------------------
(* C4 *)

\* the line the classification loop is about to take holds a record with
\* a token that is neither IN, IN_DELETE nor OUT
NextIsOther ==
    /\ pc = "read"
    /\ lineno < Len(dp_file)
    /\ Len(Fields[dp_file[lineno + 1]]) = 2
    /\ IsOtherToken(Fields[dp_file[lineno + 1]][2])

C4_Step ==
    NextIsOther =>
        /\ inputs' = IF Fields[dp_file[lineno + 1]][1] \notin outputs
                     THEN inputs \cup {Fields[dp_file[lineno + 1]][1]}
                     ELSE inputs
        /\ outputs' = outputs \cup {Fields[dp_file[lineno + 1]][1]}

C4_FirstOther ==
    LET h == Consumed
    IN \A k \in Records(h) :
        (IsFirstRecord(h, k) /\ IsOtherToken(h[k][2])) =>
            h[k][1] \in inputs /\ h[k][1] \in outputs

\* C4: a record whose token is neither IN, IN_DELETE nor OUT adds its URI
\* to inputs only if the URI is not in outputs, and always adds it to
\* outputs; a URI first seen with such a token is in both sets.
C4_OtherRecord == [][C4_Step]_vars /\ []C4_FirstOther

\* a classified log where an INOUT came first for a URI of the runtime, and
\* where an INOUT came for a URI that was an output before and stays out of
\* the inputs
C4_Witness ==
    /\ pc = "done"
    /\ LET h == Consumed
       IN /\ \E k \in Records(h) :
                /\ IsFirstRecord(h, k)
                /\ IsOtherToken(h[k][2])
                /\ h[k][1] \in LogUris
          /\ \E k, j \in Records(h) :
                /\ IsFirstRecord(h, k)
                /\ h[k][2] = TokOUT
                /\ h[j][1] = h[k][1]
                /\ IsOtherToken(h[j][2])
                /\ h[k][1] \notin inputs

----------------------------------------------------------------------------
(* C5 *)

\* a dir:// reference whose path does not end with the separator
IsBareDir(u) ==
    /\ urlsplit(u).scheme = SchemeDir
    /\ urlsplit(u).path # <<>>
    /\ urlsplit(u).path[Len(urlsplit(u).path)] # "/"

\* C5 as stated: in the returned lists each bare dir:// entry of the log
\* appears with its path followed by one separator, and no bare dir://
\* entry is left.
C5_DirsCanonical ==
    pc = "done" =>
        /\ \A u \in inputs : IsBareDir(u) => In(FixedDirRef(u), l_ins)
        /\ \A u \in outputs : IsBareDir(u) => In(FixedDirRef(u), l_outs)
        /\ \A n \in 1..Len(l_ins) : ~IsBareDir(l_ins[n])
        /\ \A n \in 1..Len(l_outs) : ~IsBareDir(l_outs[n])

----------------------------------------------------------------------------
(* The result of get_common_paths *)

\* get_common_paths has returned list_common_paths
Returned == cp_pc = "done"

PathOf(url) == urlsplit(url).path

\* the components of prefix are the first components of path
Under(path, prefix) ==
    /\ Len(Parts(prefix)) <= Len(Parts(path))
    /\ SubSeq(Parts(path), 1, Len(Parts(prefix))) = Parts(prefix)

\* the prefixes returned, as a set
Prefixes == { list_common_paths[m] : m \in 1..Len(list_common_paths) }

\* url_list holds files only, and at least one
AllFiles ==
    /\ url_list # <<>>
    /\ \A n \in 1..Len(url_list) : urlsplit(url_list[n]).scheme = SchemeFile

\* the directories of the files of url_list
FileDirs == { Parent(PathOf(url_list[n])) : n \in 1..Len(url_list) }

\* a directory path with its end slash
WithSlash(path) == IF path[Len(path)] = "/" THEN path ELSE path \o <<"/">>

\* the components shared by all the lists of components of the set S
RECURSIVE SharedParts(_)
SharedParts(S) ==
    LET p == CHOOSE x \in S : TRUE
    IN IF S = {p} THEN p ELSE CommonParts(p, SharedParts(S \ {p}))

\* the deepest directory that holds all the files of url_list
SharedDir == JoinAbs(SharedParts({ Parts(d) : d \in FileDirs }))

\* the first component of a directory path, <<>> for the root
TopOf(dir) == IF Parts(dir) = <<>> THEN <<>> ELSE Parts(dir)[1]

\* the top-level branches the files of url_list lie in
Branches == { TopOf(d) : d \in FileDirs }

----------------------------------------------------------------------------
(* C6 *)

\* C6 as stated: the returned prefixes are a minimal set such that every URI
\* of the sorted list lies under exactly one of them.
C6_AsStated ==
    Returned =>
        /\ \A n \in 1..Len(url_list) :
              Cardinality({ p \in Prefixes : Under(PathOf(url_list[n]), p) }) = 1
        /\ \A p \in Prefixes :
              \E n \in 1..Len(url_list) :
                  \A q \in Prefixes : Under(PathOf(url_list[n]), q) => q = p

\* C6 amended: every URI of the sorted list lies under at least one returned
\* prefix.
C6_EveryUriCovered ==
    Returned =>
        \A n \in 1..Len(url_list) :
            \E m \in 1..Len(list_common_paths) :
                Under(PathOf(url_list[n]), list_common_paths[m])

\* a returned list for directories and files, where a file lies under two
\* returned prefixes and two prefixes came from files
C6_Witness ==
    /\ Returned
    /\ \E n \in 1..Len(url_list) : urlsplit(url_list[n]).scheme = SchemeDir
    /\ \E n \in 1..Len(url_list) :
          /\ urlsplit(url_list[n]).scheme = SchemeFile
          /\ Cardinality({ p \in Prefixes : Under(PathOf(url_list[n]), p) }) = 2
    /\ Len(list_common_paths) >= 3

----------------------------------------------------------------------------
(* C7 *)

\* url_list holds files of at least two directories, and a directory other
\* than the root holds them all
FilesShareAncestor ==
    /\ AllFiles
    /\ Cardinality(FileDirs) >= 2
    /\ SharedDir # <<"/">>

\* C7 as stated: for files in different directories with a shared non-root
\* ancestor the directory of each file is returned as a prefix of its own.
C7_AsStated ==
    (Returned /\ FilesShareAncestor) =>
        Prefixes = { WithSlash(d) : d \in FileDirs }

\* C7 amended: for files in different directories with a shared non-root
\* ancestor one prefix is returned, the deepest directory that holds them all.
C7_SharedAncestorReturned ==
    (Returned /\ FilesShareAncestor) =>
        list_common_paths = <<WithSlash(SharedDir)>>

\* files of two sibling directories: the prefix returned is the directory
\* of none of them
C7_Witness ==
    /\ Returned
    /\ FilesShareAncestor
    /\ SharedDir \notin FileDirs
    /\ list_common_paths = <<WithSlash(SharedDir)>>

----------------------------------------------------------------------------
(* C8 *)

\* C8 as stated: every returned prefix ends with the path separator.
C8_EndSlash ==
    Returned =>
        \A m \in 1..Len(list_common_paths) :
            list_common_paths[m][Len(list_common_paths[m])] = "/"

----------------------------------------------------------------------------
(* C9 *)

\* C9: for a sorted list of files of one directory, the only prefix returned
\* is that directory.
C9_OneDirectory ==
    (Returned /\ AllFiles /\ Cardinality(FileDirs) = 1) =>
        list_common_paths = <<WithSlash(Parent(PathOf(url_list[1])))>>

\* two files of one directory, which is returned
C9_Witness ==
    /\ Returned
    /\ AllFiles
    /\ Cardinality(FileDirs) = 1
    /\ Len(url_list) >= 2
    /\ url_list[1] # url_list[2]
    /\ Len(list_common_paths) = 1

----------------------------------------------------------------------------
(* C10 *)

\* the prefixes returned are one per top-level branch of the files
OnePrefixPerBranch ==
    /\ Len(list_common_paths) = Cardinality(Branches)
    /\ { TopOf(p) : p \in Prefixes } = Branches

\* all the URLs of url_list name the same host
OneHost == \A n \in 1..Len(url_list) : urlsplit(url_list[n]).netloc = urlsplit(url_list[1]).netloc

\* C10 as stated: for a sorted list of files, one prefix is returned per
\* distinct top-level branch.
C10_AsStated == (Returned /\ AllFiles) => OnePrefixPerBranch

\* C10 amended: for a sorted list of files that all name the same host, one
\* prefix is returned per distinct top-level branch.
C10_OnePrefixPerBranchOfHost == (Returned /\ AllFiles /\ OneHost) => OnePrefixPerBranch

\* files of one host in two branches or more, one branch with two directories
C10_Witness ==
    /\ Returned
    /\ AllFiles
    /\ OneHost
    /\ Cardinality(Branches) >= 2
    /\ Cardinality(FileDirs) > Cardinality(Branches)
    /\ OnePrefixPerBranch

----------------------------------------------------------------------------
(* The merged list of add_manual_datasets, as the claims see it *)

\* the declared paths merged into l, one after the other
RECURSIVE MergeDeclared(_, _)
MergeDeclared(l, items) ==
    IF items = <<>> THEN l
    ELSE LET new_data_entity == NewDataEntity(items[1])
         IN  MergeDeclared(IF new_data_entity.outcome = "entity"
                           THEN AppendEntity(l, new_data_entity.uri)
                           ELSE l,
                           Tail(items))

\* data_list after data_list.sort(), before anything is erased
Merged == Sort(MergeDeclared(md_detected, data_entities_list))

\* add_manual_datasets has returned
MDReturned == md_pc = "done"

\* path is longer than prefix and starts with it
StrictlyExtends(path, prefix) == path # prefix /\ StartsWith(path, prefix)

Entries(l) == { l[n] : n \in 1..Len(l) }

IsDirEntry(url) == urlsplit(url).scheme = SchemeDir

\* the directory entries of l whose path extends no other directory entry
TopmostDirs(l) ==
    { d \in Entries(l) :
        /\ IsDirEntry(d)
        /\ ~\E e \in Entries(l) :
              IsDirEntry(e) /\ StrictlyExtends(PathOf(d), PathOf(e)) }

\* C11: when add_manual_datasets has returned, no entry of the returned list
\* has a path that strictly extends the path of a topmost directory entry of
\* the merged list, and every topmost directory entry is still in the list;
\* lists of directories only included.
C11_NothingInsideTopmost ==
    MDReturned =>
        /\ \A e \in Entries(md_data_list) : \A d \in TopmostDirs(Merged) :
              ~StrictlyExtends(PathOf(e), PathOf(d))
        /\ \A d \in TopmostDirs(Merged) : In(d, md_data_list)

\* the URIs of the declared paths that are files or directories
DeclaredUris ==
    { NewDataEntity(data_entities_list[n]).uri :
        n \in { k \in 1..Len(data_entities_list) :
                  NewDataEntity(data_entities_list[k]).outcome = "entity" } }

\* the declared URIs the runtime had detected as well
AlreadyDetected == { u \in DeclaredUris : In(u, md_detected) }

\* C12 as stated: the returned list holds exactly one entry for a declared
\* path whose URI the runtime had detected, and no URI twice.
C12_AsStated ==
    MDReturned =>
        /\ \A u \in AlreadyDetected : Count(md_data_list, u) = 1
        /\ \A u \in Entries(md_data_list) : Count(md_data_list, u) = 1

\* C12: a declared path whose URI the runtime had detected is not appended
\* again: up to the end of the merge the list holds exactly one entry for
\* it, the returned list at most one, and no URI is ever in the list twice.
C12_DeclaredOnce ==
    /\ \A u \in Entries(md_data_list) : Count(md_data_list, u) = 1
    /\ md_pc \in {"items", "erase", "raised"} =>
          \A u \in AlreadyDetected : Count(md_data_list, u) = 1

\* a declared path that was detected as well is in the returned list, and a
\* declared path that was not detected has been appended
C12_Witness ==
    /\ MDReturned
    /\ \E u \in AlreadyDetected : Count(md_data_list, u) = 1
    /\ \E u \in DeclaredUris \ AlreadyDetected : In(u, md_data_list)

----------------------------------------------------------------------------
(* The lists of fix_in_files_at_out_dirs, as the claims see them *)

\* fix_in_files_at_out_dirs has returned
FXReturned == fx_pc = "done"

\* the entries of the returned inputs that are not directories
InputFiles == { e \in Entries(inputs_list) : ~IsDirEntry(e) }

\* the dir:// entries of the outputs
OutputDirs == { e \in Entries(outputs_list) : IsDirEntry(e) }

\* C13: when fix_in_files_at_out_dirs has returned, no file entry of the
\* inputs has a path under the path of a dir:// entry of the outputs.
C13_NoInputFileInOutputDir ==
    FXReturned =>
        \A f \in InputFiles : \A d \in OutputDirs : ~Under(PathOf(f), PathOf(d))

----------------------------------------------------------------------------
(* The identifiers made with fix_dir_url *)

\* s.endswith("/")
EndsWithSlash(s) == s # <<>> /\ s[Len(s)] = "/"

\* the calls of fix_dir_url so far, each a pair of argument and result: by
\* add_dataset_file_to_crate for what is no file, by wrroc_create_action for
\* every identifier
Fixed ==
    { <<ca_ins[n], fixed_ins[n]>> :
        n \in { k \in 1..Len(fixed_ins) : urlsplit(ca_ins[k]).scheme # SchemeFile } }
    \cup { <<ca_outs[n], fixed_outs[n]>> :
        n \in { k \in 1..Len(fixed_outs) : urlsplit(ca_outs[k]).scheme # SchemeFile } }
    \cup { <<fixed_ins[n], ca_object[n]>> : n \in 1..Len(ca_object) }
    \cup { <<fixed_outs[n], ca_result[n]>> :
        n \in 1..(IF ca_pc = "done" THEN Len(fixed_outs) ELSE Len(ca_result)) }

\* C14: fix_dir_url is idempotent: applied to an identifier it has made, it
\* returns that identifier; the identifiers wrroc_create_action makes of the
\* ones add_dataset_file_to_crate returned are the same identifiers.
C14_Idempotent ==
    /\ \A p \in Fixed : fix_dir_url(p[2]) = p[2]
    /\ \A n \in 1..Len(ca_object) : ca_object[n] = fixed_ins[n]
    /\ \A n \in 1..Len(fixed_outs) : n <= Len(ca_result) => ca_result[n] = fixed_outs[n]

\* fix_dir_url has been applied twice to a directory without an end slash,
\* to one with it, and to a file
C14_Witness ==
    /\ ca_pc = "done"
    /\ \E n \in 1..Len(ca_object) :
          /\ urlsplit(ca_ins[n]).scheme = SchemeDir
          /\ ~EndsWithSlash(ca_ins[n])
          /\ EndsWithSlash(fixed_ins[n])
          /\ ca_object[n] = fixed_ins[n]
    /\ \E n \in 1..Len(ca_object) :
          /\ urlsplit(ca_ins[n]).scheme = SchemeDir
          /\ EndsWithSlash(ca_ins[n])
    /\ \E n \in 1..Len(fixed_outs) : ca_result[n] = ca_outs[n]

\* the path with the separator appended unless it ends with it
WithEndSlash(path) == IF EndsWithSlash(path) THEN path ELSE path \o <<"/">>

\* out is file://, the host of in, and the path of in with its end slash
IsFileUrlOf(out, in) ==
    /\ urlsplit(out).scheme = SchemeFile
    /\ urlsplit(out).netloc = urlsplit(in).netloc
    /\ urlsplit(out).path = WithEndSlash(urlsplit(in).path)
    /\ out = SchemeFilePrefix \o urlsplit(in).netloc \o WithEndSlash(urlsplit(in).path)

\* C15: fix_dir_url makes of every dir:// URI the file:// URI of the same
\* host and path, the path ending with the separator, which is appended only
\* if the path does not end with it; it returns every other URI as it is;
\* no result has the scheme dir.
C15_DirToFile ==
    \A p \in Fixed :
        /\ urlsplit(p[1]).scheme = SchemeDir => IsFileUrlOf(p[2], p[1])
        /\ urlsplit(p[1]).scheme # SchemeDir => p[2] = p[1]
        /\ urlsplit(p[2]).scheme # SchemeDir

\* identifiers have been made of a directory with the end slash, of one
\* without it, and of an identifier that is no dir:// URI
C15_Witness ==
    /\ ca_pc = "done"
    /\ \E p \in Fixed : urlsplit(p[1]).scheme = SchemeDir
                          /\ EndsWithSlash(urlsplit(p[1]).path) /\ p[2] # p[1]
    /\ \E p \in Fixed : urlsplit(p[1]).scheme = SchemeDir
                          /\ ~EndsWithSlash(urlsplit(p[1]).path)
                          /\ EndsWithSlash(urlsplit(p[2]).path)
    /\ \E p \in Fixed : urlsplit(p[1]).scheme # SchemeDir /\ p[2] = p[1]

----------------------------------------------------------------------------
(* Lines of the log that are no records, and the header lines *)

\* the next line does not split into two fields
NextIsNoRecord ==
    /\ pc = "read"
    /\ lineno < Len(dp_file)
    /\ Len(Fields[dp_file[lineno + 1]]) # 2

C16_Step ==
    NextIsNoRecord =>
        /\ inputs' = inputs
        /\ outputs' = outputs
        /\ lineno' = lineno + 1
        /\ pc' = "read"

\* C16: a line that does not split into exactly two fields leaves inputs
\* and outputs as they are, and the loop goes on to the next line.
C16_NoRecordIgnored == [][C16_Step]_vars

\* after the headers a line with three fields was read, then a record, whose
\* URI was classified
C16_Witness ==
    LET h == Consumed
    IN \E k \in 4..lineno : \E j \in (k + 1)..lineno :
        /\ Len(h[k]) = 3
        /\ Len(h[j]) = 2
        /\ h[j][1] \in inputs \cup outputs
        /\ Cardinality(inputs \cup outputs) = 1

\* C17: the three first lines are headers: whatever they hold, every URI of
\* inputs and outputs comes from a record after them.
C17_HeadersAddNothing ==
    LET h == Consumed
    IN \A u \in inputs \cup outputs :
        \E k \in Records(h) : k > 3 /\ h[k][1] = u

----------------------------------------------------------------------------
(* Declared paths that are missing, or neither file nor directory *)

\* the loop over the declared paths is at a path
NextDeclared == md_pc = "items" /\ md_k < Len(data_entities_list)

C18_Step ==
    /\ (NextDeclared /\ ~Exists(data_entities_list[md_k + 1])) =>
          /\ md_data_list' = md_data_list
          /\ md_k' = md_k + 1
          /\ md_pc' = "items"
    /\ (NextDeclared /\ IsOther(data_entities_list[md_k + 1])) =>
          /\ md_data_list' = md_data_list
          /\ md_pc' = "raised"
    /\ md_pc # "raised"

C18_State ==
    /\ md_pc = "raised" => IsOther(data_entities_list[md_k + 1])
    /\ md_pc \in {"erase", "done"} =>
          \A n \in 1..Len(data_entities_list) : ~IsOther(data_entities_list[n])
    /\ md_pc = "erase" => \A u \in DeclaredUris : In(u, md_data_list)

\* C18: a declared path that does not exist adds no entry and the loop goes
\* on to the next declared path; one that exists and is neither a regular
\* file nor a directory raises FileNotFoundError, after which nothing more
\* is done; the function only gets past the loop when no declared path is
\* of that kind, and then every declared file and directory is in the list.
C18_MissingSkippedOtherFatal == [][C18_Step]_vars /\ []C18_State

\* a missing path was skipped, a file declared after it was appended, and
\* the function has returned
C18_Witness ==
    /\ MDReturned
    /\ \E k \in 1..Len(data_entities_list) : \E j \in (k + 1)..Len(data_entities_list) :
          /\ ~Exists(data_entities_list[k])
          /\ NewDataEntity(data_entities_list[j]).outcome = "entity"
          /\ ~In(NewDataEntity(data_entities_list[j]).uri, md_detected)
          /\ In(NewDataEntity(data_entities_list[j]).uri, md_data_list)

----------------------------------------------------------------------------
(* The run as a whole: the package and the main entity *)

\* main has returned
Completed == main_pc = "done"

C19_Step ==
    /\ written' # written =>
          /\ main_pc = "write"
          /\ stages_done = SubSeq(Stages, 1, Len(Stages) - 1)
          /\ main_pc' = "done"
    /\ main_pc \notin {"raised", "done"}

C19_State ==
    /\ written \in {0, 1}
    /\ written = 1 <=> Completed
    /\ Completed => stages_done = Stages /\ raised = NoError
    /\ raised # NoError => main_pc = "raised" /\ written = 0
    /\ main_pc = "raised" => raised # NoError /\ Len(stages_done) < Len(Stages) - 1

\* C19: the package is written once at most, by the last stage and only
\* when every stage before it has returned; a stage that raises is the last
\* step of the run, which ends without the package written.
C19_WrittenOnceAtTheEnd == [][C19_Step]_vars /\ []C19_State

\* a run that has written the package
C19_Witness == Completed /\ written = 1 /\ stages_done = Stages

\* the files registered as the workflow of the crate
MainFiles == { n \in 1..Len(crate_files) : crate_files[n].role = "MAIN" }

\* C20: in every run that completes, one source file and only one is
\* registered as MAIN, and every other added source file as AUXILIARY.
C20_ExactlyOneMain ==
    Completed =>
        /\ Cardinality(MainFiles) = 1
        /\ \A n \in 1..Len(crate_files) :
              crate_files[n].file # main_entity => crate_files[n].role = "AUXILIARY"

----------------------------------------------------------------------------
(* The ways get_main_entities has of finding the main entity *)

GMEReturned == Len(stages_done) >= 3
GMERaised == main_pc = "raised" /\ Len(stages_done) = 2

\* the source files found under 'sources'
SourceFilesFound == ListOfSources(YamlSourcesList(yaml_sources), listing)

\* the detected main file is among the sources
DetectedFound ==
    \E n \in 1..Len(SourceFilesFound) : EndsWith(SourceFilesFound[n], second_line)

\* the declared sources_main_file is a file, by itself or in a directory of
\* 'sources'
DeclaredExists ==
    /\ sources_main_file # NoMainFile
    /\ \/ SourceIsFile(sources_main_file)
       \/ \E k \in 1..Len(YamlSourcesList(yaml_sources)) :
             LET source == YamlSourcesList(yaml_sources)[k]
             IN  /\ SourceIsDir(source)
                 /\ \E n \in 1..Len(SourceFilesFound) :
                       \/ SourceFilesFound[n]
                             = PathJoin(ResolveSource(source), sources_main_file)
                       \/ EndsWith(SourceFilesFound[n], sources_main_file)

\* there is a source file to fall back on
BackupExists == SourceFilesFound # <<>>

Determined == DetectedFound \/ DeclaredExists \/ BackupExists

----------------------------------------------------------------------------
(* The loop of get_common_paths over the files after the first *)

\* the path of the item the loop over url_files_list yields next
NextFilePath == urlsplit(UrlFilesList[cp_it]).path

\* common_path is in the result after the step, which adds nothing else
Flushed ==
    /\ In(common_path, list_common_paths')
    /\ list_common_paths' \in {list_common_paths, Append(list_common_paths, common_path)}

C22_Step ==
    /\ (cp_pc = "files" /\ cp_it <= Len(UrlFilesList)) =>
          IF commonpath(NextFilePath, common_path) = <<"/">>
          THEN /\ Flushed
               /\ common_path' = Parent(NextFilePath)
          ELSE /\ list_common_paths' = list_common_paths
               /\ common_path' = commonpath(NextFilePath, common_path)
    /\ (cp_pc = "files" /\ cp_it > Len(UrlFilesList)) =>
          /\ Flushed
          /\ common_path' = common_path
          /\ cp_pc' = "slash"

\* C22: for each file after the first, get_common_paths computes the common
\* path of common_path and the path of the file; when that is the root,
\* common_path is put in the result and set to the directory of the file,
\* otherwise common_path becomes the computed path and the result is left
\* alone; after the loop the last common_path is put in the result.
C22_FlushAndReseed == [][C22_Step]_vars

\* a list of files only, whose loop has flushed one prefix at least before
\* the last one
C22_Witness ==
    /\ cp_pc = "slash"
    /\ cp_it = 1
    /\ i = 1
    /\ Len(url_list) >= 2
    /\ Len(list_common_paths) >= 2

----------------------------------------------------------------------------
(* The order of the calls of main on the lists of accessed files *)

FlowOrder ==
    << "process_accessed_files", "inputs", "outputs", "fix_in_files_at_out_dirs",
       "ins_and_outs", "data_persistence", "get_common_paths", "fixed_ins",
       "fixed_outs", "done" >>

FlowPos(stage) == CHOOSE n \in 1..Len(FlowOrder) : FlowOrder[n] = stage

C23_Step ==
    /\ (flow_pc' # flow_pc /\ flow_pc' # "raised") => FlowPos(flow_pc') > FlowPos(flow_pc)
    /\ flow_pc # "raised"
    /\ (flow_pc = "data_persistence" /\ flow_pc' # flow_pc) =>
          IF data_persistence = "true"
          THEN flow_pc' = "get_common_paths" /\ cp_pc' = "dirs" /\ url_list' = ins_and_outs
          ELSE flow_pc' = "fixed_ins" /\ cp_pc' = "idle"

C23_State ==
    /\ pc # "idle" => flow_pc = "process_accessed_files"
    /\ md_pc # "idle" => flow_pc \in {"inputs", "outputs", "raised"}
    /\ fx_pc # "idle" => flow_pc = "fix_in_files_at_out_dirs"
    /\ cp_pc # "idle" => flow_pc = "get_common_paths" /\ data_persistence = "true"
    /\ dataset_calls # <<>> => flow_pc \in {"fixed_ins", "fixed_outs", "done", "raised"}
    /\ \A n \in 1..Len(dataset_calls) :
          /\ dataset_calls[n].persist = (data_persistence = "true")
          /\ dataset_calls[n].common_paths = main_common_paths
          /\ data_persistence # "true" => dataset_calls[n].common_paths = <<>>

\* C23: main classifies the log, then merges the declared inputs and the
\* declared outputs, then fixes the inputs inside output directories, then
\* finds the common paths, then adds the data entities, in this order and
\* one after the other; get_common_paths is called if and only if
\* data_persistence is True, and without it each add_dataset_file_to_crate
\* call gets an empty list of common paths.
C23_StageOrder == [][C23_Step]_vars /\ []C23_State

\* a run with data_persistence that has found a common path and added two
\* data entities or more
C23_Witness ==
    /\ flow_pc = "done"
    /\ data_persistence = "true"
    /\ main_common_paths # <<>>
    /\ Len(dataset_calls) >= 2

----------------------------------------------------------------------------
(* The order of the lists handed from one function to the next *)

\* no entry is smaller than the one before it, as list.sort() orders str
Ascending(l) == \A n \in 1..(Len(l) - 1) : ~StrLt(l[n + 1], l[n])

IsDirRef(item) == StartsWith(item, SchemeDir \o <<":", "/", "/">>)
IsFileRef(item) == StartsWith(item, SchemeFilePrefix)

\* every dir:// entry comes before every file:// entry
DirsFirst(l) ==
    \A m \in 1..Len(l) : \A n \in 1..Len(l) :
        (IsFileRef(l[m]) /\ IsDirRef(l[n])) => n < m

\* C24: the lists process_accessed_files returns and the list
\* add_manual_datasets returns are ascending in the order of list.sort(),
\* with every dir:// entry before every file:// entry, and the list main
\* passes to get_common_paths is ascending.
C24_SortedAtHandOff ==
    /\ pc = "done" =>
          /\ Ascending(l_ins) /\ DirsFirst(l_ins)
          /\ Ascending(l_outs) /\ DirsFirst(l_outs)
    /\ md_pc = "done" => Ascending(md_data_list) /\ DirsFirst(md_data_list)
    /\ cp_pc # "idle" => Ascending(url_list)

\* get_common_paths is called with three entries or more, directories and
\* files among them, after a declared entry was merged
C24_Witness ==
    /\ cp_pc = "dirs"
    /\ i = 0
    /\ Len(url_list) >= 3
    /\ \E n \in 1..Len(url_list) : IsDirRef(url_list[n])
    /\ \E n \in 1..Len(url_list) : IsFileRef(url_list[n])
    /\ Len(main_ins) + Len(main_outs) = Len(url_list)

----------------------------------------------------------------------------
(* What fix_in_files_at_out_dirs leaves alone *)

\* the lists as passed: outputs with no dir:// entry, inputs with no other
\* entry than dir:// entries
NoOutputDir == \A n \in 1..Len(outputs_list) : ~IsDirEntry(outputs_list[n])
NoInputFile == \A n \in 1..Len(fx_inputs) : IsDirEntry(fx_inputs[n])

C25_Step ==
    /\ outputs_list' = outputs_list
    /\ \A n \in 1..Len(inputs_list) :
          IsDirEntry(inputs_list[n]) =>
              Count(inputs_list', inputs_list[n]) = Count(inputs_list, inputs_list[n])

C25_State ==
    /\ (NoOutputDir \/ NoInputFile) => inputs_list = fx_inputs
    /\ \A n \in 1..Len(fx_inputs) :
          IsDirEntry(fx_inputs[n]) => In(fx_inputs[n], inputs_list)

\* C25: fix_in_files_at_out_dirs never changes outputs_list and never
\* removes a dir:// entry from inputs_list, and when the outputs hold no
\* dir:// entry or the inputs hold no file entry inputs_list stays as it
\* was passed.
C25_Frame == [][C25_Step]_vars /\ []C25_State

\* a file was removed from the inputs, and the directory among them is
\* still there
C25_Witness ==
    /\ FXReturned
    /\ Len(inputs_list) < Len(fx_inputs)
    /\ \E n \in 1..Len(inputs_list) :
          /\ IsDirEntry(inputs_list[n])
          /\ InOutDir(PathOf(inputs_list[n]), fx_directories_list)

----------------------------------------------------------------------------
(* What add_manual_datasets and fix_in_files_at_out_dirs remove *)

\* the path of entry lies inside the directory of the entry dir, component
\* by component
InsideDir(entry, dir) ==
    /\ IsDirEntry(dir)
    /\ PathOf(entry) # PathOf(dir)
    /\ Under(PathOf(entry), PathOf(dir))

\* C26: an entry add_manual_datasets has removed from the merged list lies
\* inside a directory entry of that list, and an entry
\* fix_in_files_at_out_dirs has removed from the inputs lies inside a
\* directory entry of the outputs, component by component; this for the
\* lists main hands over, directory entries of process_accessed_files
\* included.
C26_RemovedOnlyInsideDirectory ==
    /\ (MDReturned /\ flow_pc \in {"inputs", "outputs"}) =>
          \A e \in Entries(Merged) \ Entries(md_data_list) :
              \E d \in Entries(Merged) : InsideDir(e, d)
    /\ (FXReturned /\ flow_pc = "fix_in_files_at_out_dirs") =>
          \A e \in Entries(fx_inputs) \ Entries(inputs_list) :
              \E d \in Entries(outputs_list) : InsideDir(e, d)

----------------------------------------------------------------------------
(* The prefixes get_common_paths returns, one by one *)

\* C27: the list get_common_paths returns holds no prefix twice, also when
\* a file lies directly in a directory that is a dir:// entry of the list.
C27_NoDuplicatePrefix ==
    Returned =>
        \A m \in 1..Len(list_common_paths) : \A n \in 1..Len(list_common_paths) :
            list_common_paths[m] = list_common_paths[n] => m = n

----------------------------------------------------------------------------
(* The source files add_application_source_files adds *)

\* add_application_source_files has returned
SourcesAdded == Len(stages_done) >= 5

\* the k-th entry of 'sources' is a directory that is neither the same as
\* nor inside of a directory named earlier in the list
NewSourceDir(k) ==
    LET sources_list == YamlSourcesList(yaml_sources)
    IN  /\ SourceIsDir(sources_list[k])
        /\ ~\E j \in 1..(k - 1) :
              /\ SourceIsDir(sources_list[j])
              /\ Under(ResolveSource(sources_list[k]), ResolveSource(sources_list[j]))

\* C28: when add_application_source_files has returned, no file is in the
\* crate twice, and every file of a declared directory that is neither the
\* same as nor inside of a directory declared before it is in the crate,
\* also when the name of the directory extends the name of an earlier one.
C28_SkipsOnlyNestedDirs ==
    SourcesAdded =>
        /\ \A m \in 1..Len(crate_files) : \A n \in 1..Len(crate_files) :
              crate_files[m].file = crate_files[n].file => m = n
        /\ \A k \in 1..Len(YamlSourcesList(yaml_sources)) :
              NewSourceDir(k) =>
                  \A n \in 1..Len(FilesOfSource(YamlSourcesList(yaml_sources)[k], listing)) :
                      \E m \in 1..Len(crate_files) :
                          crate_files[m].file
                              = FilesOfSource(YamlSourcesList(yaml_sources)[k], listing)[n]

----------------------------------------------------------------------------
(* The two sets only grow, and the outputs do not depend on the order *)

RECURSIVE ClassifyAll(_, _, _)
\* the sets after the loop has classified the records of h, in their order
ClassifyAll(h, ins, outs) ==
    IF h = <<>> THEN [inputs |-> ins, outputs |-> outs]
    ELSE LET r == Classify(Head(h), ins, outs)
         IN ClassifyAll(Tail(h), r.inputs, r.outputs)

\* h, last record first
Reversed(h) == [k \in 1..Len(h) |-> h[Len(h) + 1 - k]]

\* the URIs of the records of h whose token is neither IN nor IN_DELETE
WrittenUris(h) == { h[k][1] : k \in { j \in Records(h) : ~IsInToken(h[j][2]) } }

C29_Step ==
    /\ inputs \subseteq inputs'
    /\ outputs \subseteq outputs'

C29_State ==
    /\ outputs = WrittenUris(Consumed)
    /\ outputs = ClassifyAll(Reversed(Consumed), {}, {}).outputs

\* C29: while the log is classified no record takes a URI out of inputs or
\* out of outputs, and outputs holds exactly the URIs of the records read so
\* far whose token is neither IN nor IN_DELETE, so that it is the same set
\* when the same records are read in the opposite order.
C29_SetsGrow == [][C29_Step]_vars /\ []C29_State

\* the whole log was classified, a URI left inputs out because its OUT came
\* before its IN, and the same records read last to first give other inputs
C29_Witness ==
    /\ Classified
    /\ \E u \in outputs \ inputs :
         \E k \in RecordsOf(Consumed, u) : IsInToken(Consumed[k][2])
    /\ ClassifyAll(Reversed(Consumed), {}, {}).inputs # inputs
    /\ ClassifyAll(Reversed(Consumed), {}, {}).outputs = outputs

----------------------------------------------------------------------------
(* The loops that append to and remove from the list they iterate over *)

\* a turn of either loop moves the iterator one place on and leaves the list
\* as long as it was
C30_Step ==
    /\ (pc = "fix" /\ pc' = "fix" /\ data_idx' = data_idx) =>
           /\ it' = it + 1
           /\ Len(DataList') = Len(DataList)
    /\ (cp_pc = "slash" /\ cp_pc' = "slash") =>
           /\ cp_it' = cp_it + 1
           /\ Len(list_common_paths') = Len(list_common_paths)

\* C30: the dir:// fix-up loop of process_accessed_files and the end-slash
\* loop of get_common_paths come to their end on every list: a turn appends
\* one item and removes one while the iterator goes one place on, so that
\* each loop that has begun is left after finitely many turns.
C30_LoopsTerminate ==
    /\ [][C30_Step]_vars
    /\ (pc = "fix" ~> pc = "done")
    /\ (cp_pc = "slash" ~> cp_pc = "done")

\* the fix-up loop is over after it has met an item it had appended itself,
\* which got a second end slash
C30_Witness ==
    /\ pc = "done"
    /\ \E n \in 1..Len(l_ins) : EndsWith(l_ins[n], <<"/", "/">>)

====
